---- MODULE Spec2Model ----
(***************************************************************************)
(* A model of ghoodoo: the reference parser (src/parser/references.ts),    *)
(* the retry loop of the Odoo client (src/odoo/client.ts) and the push and *)
(* pull-request reconcilers (src/github/events.ts).                        *)
(*                                                                         *)
(* Three specifications share the variables:                               *)
(*   SpecParse  parseReferences applied to every bounded text              *)
(*   SpecRpc    OdooClient.rpc against a server that answers each attempt  *)
(*              with any outcome                                           *)
(*   Spec       handlePushEvent / handlePullRequestEvent on one event,     *)
(*              the client's methods answering with any outcome            *)
(***************************************************************************)
EXTENDS Integers, Sequences, FiniteSets, TLC

\* ------------------------------------------------------------------ bounds
MaxLen == 4          \* lexemes in a text given to the parser (SpecParse)
MaxCommits == 2      \* commits in one push event (Spec)
MaxCalls == 2        \* rpc calls made on one client instance (SpecRpc)
MaxDeliveries == 2   \* deliveries of one webhook request (SpecRedelivery)
MaxParseCalls == 2   \* calls of parseReferences one after the other (SpecParseCalls)
MaxCallLen == 2      \* lexemes in a text of these calls (SpecParseCalls)
MaxAuthorCalls == 3  \* calls of resolveAuthorPartnerId on one instance (SpecClient)
MaxCallers == 2      \* calls of resolveAuthorPartnerId in progress together (SpecInterleaved)

\* ------------------------------------------------------------------ text
(* A text is a sequence of lexemes written one after the other with        *)
(* nothing between them; white space is a lexeme of its own.  A lexeme is  *)
(* a run of letters ("word"), one white-space character ("ws") or an       *)
(* identifier, the prefix ODP- in some letter case followed by its decimal *)
(* digits ("id").                                                          *)
Word(s) == [kind |-> "word", s |-> s, digits |-> <<>>]
Ws(s) == [kind |-> "ws", s |-> s, digits |-> <<>>]
Id(prefix, digits) == [kind |-> "id", s |-> prefix, digits |-> digits]

\* String.prototype.toLowerCase on the words of the model.
ToLowerCase(s) ==
    CASE s = "Closes" -> "closes"
      [] s = "FIXES" -> "fixes"
      [] s = "Resolves" -> "resolves"
      [] s = "Refs" -> "refs"
      [] s = "REFERENCES" -> "references"
      [] s = "ODP-" -> "odp-"
      [] OTHER -> s

CLOSE_KEYWORDS == {"closes", "fixes", "resolves"}
REF_KEYWORDS == {"refs", "references"}

UNDEFINED == "undefined"

\* Number.parseInt(digits, 10) of a non-empty run of decimal digits.
RECURSIVE ParseInt(_)
ParseInt(digits) ==
    IF digits = <<>> THEN 0
    ELSE 10 * ParseInt(SubSeq(digits, 1, Len(digits) - 1)) + digits[Len(digits)]

(* REFERENCE_PATTERN tried at lexeme i (flags g, i):                       *)
(*   (?:(closes|fixes|resolves|refs|references)\s+)?ODP-(\d+)              *)
(* WsEnd(text, i) is the last lexeme of the greedy \s+ run that starts at  *)
(* i (i - 1 when there is none).                                           *)
RECURSIVE WsEnd(_, _)
WsEnd(text, i) ==
    IF i <= Len(text) /\ text[i].kind = "ws" THEN WsEnd(text, i + 1) ELSE i - 1

IsKeywordLexeme(tok) ==
    tok.kind = "word" /\ ToLowerCase(tok.s) \in (CLOSE_KEYWORDS \cup REF_KEYWORDS)

IsIdLexeme(tok) == tok.kind = "id" /\ ToLowerCase(tok.s) = "odp-" /\ tok.digits # <<>>

NoMatch == [found |-> FALSE, keyword |-> UNDEFINED, digits |-> <<>>, end |-> 0]

\* The match that starts at lexeme i, the optional group tried first.
MatchAt(text, i) ==
    LET e == WsEnd(text, i + 1) IN
    IF /\ IsKeywordLexeme(text[i])
       /\ e >= i + 1
       /\ e + 1 <= Len(text)
       /\ IsIdLexeme(text[e + 1])
    THEN [found |-> TRUE, keyword |-> text[i].s, digits |-> text[e + 1].digits,
          end |-> e + 1]
    ELSE IF IsIdLexeme(text[i])
    THEN [found |-> TRUE, keyword |-> UNDEFINED, digits |-> text[i].digits, end |-> i]
    ELSE NoMatch

\* text.matchAll(REFERENCE_PATTERN) from lexeme i on: the leftmost match, then
\* the matches after its end.
RECURSIVE MatchAll(_, _)
MatchAll(text, i) ==
    IF i > Len(text) THEN <<>>
    ELSE LET m == MatchAt(text, i) IN
         IF m.found THEN <<m>> \o MatchAll(text, m.end + 1)
         ELSE MatchAll(text, i + 1)

\* A faulty variant of ActionOf: the keyword is compared as written.
ActionOfCaseSensitive(keyword) ==
    IF keyword # UNDEFINED /\ keyword \in CLOSE_KEYWORDS THEN "close" ELSE "ref"

\* const action = keyword && CLOSE_KEYWORDS.includes(keyword) ? "close" : "ref"
\* with keyword = match[1]?.toLowerCase()
ActionOf(keyword) ==
    IF keyword # UNDEFINED /\ ToLowerCase(keyword) \in CLOSE_KEYWORDS
    THEN "close" ELSE "ref"

\* A faulty variant of Collect: a later match of a task replaces the earlier one.
RECURSIVE CollectLastWins(_, _)
CollectLastWins(matches, references) ==
    IF matches = <<>> THEN references
    ELSE LET m == Head(matches)
             taskId == ParseInt(m.digits)
             r == [action |-> ActionOf(m.keyword), taskId |-> taskId]
         IN CollectLastWins(Tail(matches),
                [k \in 1..Len(references) |->
                    IF references[k].taskId = taskId THEN r ELSE references[k]]
                \o (IF \E k \in 1..Len(references) : references[k].taskId = taskId
                    THEN <<>> ELSE <<r>>))

\* The loop of parseReferences over the matches, with its seen set.
RECURSIVE Collect(_, _, _)
Collect(matches, references, seen) ==
    IF matches = <<>> THEN references
    ELSE LET m == Head(matches)
             taskId == ParseInt(m.digits)
         IN IF taskId \in seen
            THEN Collect(Tail(matches), references, seen)
            ELSE Collect(Tail(matches),
                         Append(references,
                                [action |-> ActionOf(m.keyword), taskId |-> taskId]),
                         seen \cup {taskId})

\* A faulty variant of parseReferences: the last occurrence wins.
parseReferencesLastWins(text) == CollectLastWins(MatchAll(text, 1), <<>>)

parseReferences(text) == Collect(MatchAll(text, 1), <<>>, {})


\* ------------------------------------------------------------------ rpc
retries == 5

NoError == [class |-> "none", message |-> "", status |-> 0]
HttpError(status) == [class |-> "Error", message |-> "Odoo HTTP error", status |-> status]
RpcErrorOf(message) ==
    [class |-> "Error", message |-> "Odoo RPC error: " \o message, status |-> 0]
SyntaxError == [class |-> "SyntaxError", message |-> "Unexpected token", status |-> 0]
RetriesFailed == [class |-> "Error", message |-> "Odoo RPC failed after retries", status |-> 0]

(* What one attempt meets: fetch resolves with a response (a status and,   *)
(* read by response.json(), a body holding a result, a JSON-RPC error or   *)
(* no JSON at all), or fetch rejects with an exception.                    *)
Response(status, body, value) ==
    [type |-> "response", status |-> status, body |-> body, value |-> value,
     error |-> NoError]
Rejection(class, message) ==
    [type |-> "throw", status |-> 0, body |-> "", value |-> "",
     error |-> [class |-> class, message |-> message, status |-> 0]]

Values == {"v1", "v2"}
Statuses == {200, 404, 429, 500, 503}

Outcomes ==
    {Response(s, "", "") : s \in Statuses \ {200}}
    \cup {Response(200, "result", v) : v \in Values}
    \cup {Response(200, "error", "Access denied"), Response(200, "invalid", "")}
    \cup {Rejection("TypeError", "fetch failed"),
          Rejection("TypeError", "Cannot read properties of undefined"),
          Rejection("Error", "aborted")}

\* response.ok
ResponseOk(status) == status >= 200 /\ status <= 299

\* error.message.includes("fetch") on the messages of the model
MessageIncludesFetch(message) == message = "fetch failed"

\* A faulty variant of RetryStatus: every client error is retried too.
RetryStatusAny4xx(status) == status >= 400

\* if (response.status >= 500 || response.status === 429)
RetryStatus(status) == status >= 500 \/ status = 429

\* if (error instanceof TypeError && error.message.includes("fetch"))
RetryException(error) == error.class = "TypeError" /\ MessageIncludesFetch(error.message)

\* A faulty variant of LoopCondition: one attempt short.
LoopConditionExclusive(a) == a < retries

\* for (let attempt = 0; attempt <= retries; attempt++)
LoopCondition(a) == a <= retries

\* const delay = 500 * 2 ** (attempt - 1), slept when attempt > 0
RECURSIVE Pow2(_)
Pow2(n) == IF n = 0 THEN 1 ELSE 2 * Pow2(n - 1)

\* A faulty variant of Delay: the delay grows by 500 ms with each retry.
DelayLinear(a) == 500 * a

Delay(a) == 500 * Pow2(a - 1)

Continue(a, err) == [pc |-> "loop", attempt |-> a + 1, lastError |-> err,
                     value |-> "", error |-> NoError]
ThrowOut(a, last, err) == [pc |-> "thrown", attempt |-> a, lastError |-> last,
                           value |-> "", error |-> err]
ReturnOut(a, last, v) == [pc |-> "returned", attempt |-> a, lastError |-> last,
                          value |-> v, error |-> NoError]

\* A faulty variant of Iteration: a success after a failed attempt still throws
\* the error kept in lastError.
IterationThrowsStale(a, last, out) ==
    IF out.type = "throw"
    THEN IF RetryException(out.error) THEN Continue(a, out.error)
         ELSE ThrowOut(a, last, out.error)
    ELSE IF RetryStatus(out.status) THEN Continue(a, HttpError(out.status))
    ELSE IF ~ResponseOk(out.status) THEN ThrowOut(a, last, HttpError(out.status))
    ELSE IF out.body = "invalid" THEN ThrowOut(a, last, SyntaxError)
    ELSE IF out.body = "error" THEN ThrowOut(a, last, RpcErrorOf(out.value))
    ELSE IF last # NoError THEN ThrowOut(a, last, last)
    ELSE ReturnOut(a, last, out.value)

(* The body of one loop iteration, lines 58-98: what the iteration at      *)
(* `attempt` does with what the attempt met.                               *)
Iteration(a, last, out) ==
    IF out.type = "throw"
    THEN IF RetryException(out.error) THEN Continue(a, out.error)
         ELSE ThrowOut(a, last, out.error)
    ELSE IF RetryStatus(out.status) THEN Continue(a, HttpError(out.status))
    ELSE IF ~ResponseOk(out.status) THEN ThrowOut(a, last, HttpError(out.status))
    ELSE IF out.body = "invalid" THEN ThrowOut(a, last, SyntaxError)
    ELSE IF out.body = "error" THEN ThrowOut(a, last, RpcErrorOf(out.value))
    ELSE ReturnOut(a, last, out.value)

(* After an iteration that continues: the loop test and, when it fails,    *)
(* line 101, throw lastError ?? new Error("Odoo RPC failed after retries") *)
AfterIteration(r) ==
    IF r.pc = "loop" /\ ~LoopCondition(r.attempt)
    THEN ThrowOut(r.attempt, r.lastError,
                  IF r.lastError # NoError THEN r.lastError ELSE RetriesFailed)
    ELSE r


\* ------------------------------------------------------------------ state
VARIABLES
    \* parseReferences (SpecParse)
    text,           \* the text given to the parser
    references,     \* what parseReferences returned
    parsePc,        \* "ready" | "done"
    patternLastIndex, \* REFERENCE_PATTERN.lastIndex, in lexemes
    parsed,         \* the calls of parseReferences made: text and what was returned
    \* OdooClient.rpc (SpecRpc)
    rpcPc,          \* "idle" | "loop" | "returned" | "thrown"
    requestId,      \* this.requestId
    attempt,        \* the loop variable
    lastError,      \* lastError, NoError for null
    fetchLog,       \* what each fetch of the call in progress met, in order
    delays,         \* the delays slept by the call in progress, in order
    rpcValue,       \* the value the call returned
    rpcError,       \* the error the call threw
    \* handlePushEvent / handlePullRequestEvent (Spec)
    event,          \* the event being handled
    stages,         \* odoo.stages
    githubConfig,   \* TRUE when a comment configuration is given, FALSE for null
    pc,             \* the handler's position
    allReferences,  \* the Map of handlePushEvent, in insertion order
    refs,           \* the references of handlePullRequestEvent
    idx,            \* the position of the processing loop
    result,         \* the ProcessResult under construction
    updatedTasks,   \* updatedTasks of handlePullRequestEvent
    calls,          \* every call made on the client and to postPRComment, in order
    \* the worker's fetch (Spec)
    request,        \* the request received
    response,       \* the response returned, NoResponse until then
    deliveries,     \* how many times the request has been delivered
    \* the client instance and what it reaches (Spec)
    config,         \* config.defaultUserId and config.userMapping
    partnerIdCache, \* this.partnerIdCache
    subtypeCache,   \* this.subtypeCache, 0 for null
    requests,       \* every remote request issued, in order
    mailMessages,   \* the mail.message records created in the tracker, in order
    taskStage,      \* the stage id written to each task, NotWritten before
    authorCalls     \* the calls of resolveAuthorPartnerId made on the instance (SpecClient)

parseVars == <<text, references, parsePc, patternLastIndex, parsed>>
rpcVars == <<rpcPc, requestId, attempt, lastError, fetchLog, delays, rpcValue, rpcError>>
workerVars == <<request, response>>
clientVars == <<partnerIdCache, subtypeCache>>
trackerVars == <<mailMessages, taskStage>>
remoteVars == <<partnerIdCache, subtypeCache, requests, mailMessages, taskStage>>
eventVars == <<event, stages, githubConfig, pc, allReferences, refs, idx, result,
               updatedTasks, calls, request, response, deliveries, config,
               partnerIdCache, subtypeCache, requests, mailMessages, taskStage,
               authorCalls>>
vars == <<text, references, parsePc, patternLastIndex, parsed,
          rpcPc, requestId, attempt, lastError, fetchLog, delays, rpcValue, rpcError,
          event, stages, githubConfig, pc, allReferences, refs, idx, result,
          updatedTasks, calls, request, response, deliveries, config,
          partnerIdCache, subtypeCache, requests, mailMessages, taskStage,
          authorCalls>>

NoEvent == [kind |-> "none"]
NoRequest == [method |-> "none"]
NoResponse == [status |-> 0]

\* The tasks of the tracker and the stage of a task no request has written yet.
Tasks == 1..2
NotWritten == -1
NoConfig == [defaultUserId |-> 0, userMapping |-> {}]
NumberRef(n) == [kind |-> "number", num |-> n, str |-> ""]
NameRef(s) == [kind |-> "string", num |-> 0, str |-> s]
NoStage == [kind |-> "undefined", num |-> 0, str |-> ""]

ParseIdle ==
    /\ text = <<>>
    /\ references = <<>>
    /\ parsePc = "idle"
    /\ patternLastIndex = 0
    /\ parsed = <<>>

RpcIdle ==
    /\ rpcPc = "idle"
    /\ requestId = 0
    /\ attempt = 0
    /\ lastError = NoError
    /\ fetchLog = <<>>
    /\ delays = <<>>
    /\ rpcValue = ""
    /\ rpcError = NoError

EventIdle ==
    /\ event = NoEvent
    /\ stages = [done |-> NumberRef(5), inProgress |-> NoStage, canceled |-> NoStage]
    /\ githubConfig = FALSE
    /\ pc = "idle"
    /\ allReferences = <<>>
    /\ refs = <<>>
    /\ idx = 0
    /\ result = [processed |-> 0, errors |-> <<>>]
    /\ updatedTasks = <<>>
    /\ calls = <<>>
    /\ request = NoRequest
    /\ response = NoResponse
    /\ deliveries = 0
    /\ config = NoConfig
    /\ partnerIdCache = {}
    /\ subtypeCache = 0
    /\ requests = <<>>
    /\ mailMessages = <<>>
    /\ taskStage = [t \in Tasks |-> NotWritten]
    /\ authorCalls = <<>>

\* ------------------------------------------------------------------ SpecRpc
\* A method of the client calls rpc: lines 48-55.
RpcCall ==
    /\ rpcPc \in {"idle", "returned", "thrown"}
    /\ requestId < MaxCalls
    /\ requestId' = requestId + 1
    /\ attempt' = 0
    /\ lastError' = NoError
    /\ fetchLog' = <<>>
    /\ delays' = <<>>
    /\ rpcValue' = ""
    /\ rpcError' = NoError
    /\ rpcPc' = "loop"
    /\ UNCHANGED <<parseVars, eventVars>>

\* One iteration of the loop: the backoff, the fetch and what follows it up to
\* the next await, the return or the throw.
RpcAttempt ==
    /\ rpcPc = "loop"
    /\ LoopCondition(attempt)
    /\ \E out \in Outcomes :
        LET r == AfterIteration(Iteration(attempt, lastError, out)) IN
        /\ delays' = IF attempt > 0 THEN Append(delays, Delay(attempt)) ELSE delays
        /\ fetchLog' = Append(fetchLog, out)
        /\ rpcPc' = r.pc
        /\ attempt' = r.attempt
        /\ lastError' = r.lastError
        /\ rpcValue' = r.value
        /\ rpcError' = r.error
    /\ UNCHANGED <<requestId, parseVars, eventVars>>

InitRpc == ParseIdle /\ RpcIdle /\ EventIdle

NextRpc == RpcCall \/ RpcAttempt

SpecRpc == InitRpc /\ [][NextRpc]_vars


\* ------------------------------------------------------------------ SpecParse
Lexemes ==
    {Word("closes"), Word("FIXES"), Word("Resolves"), Word("Refs"), Word("references"),
     Word("x"), Ws(" "), Ws("\n"),
     Id("ODP-", <<1>>), Id("odp-", <<0, 1>>), Id("ODP-", <<0>>)}

Texts == UNION {[1..n -> Lexemes] : n \in 0..MaxLen}

(* text.matchAll(REFERENCE_PATTERN) matches with a copy of the pattern that *)
(* starts at the lastIndex of REFERENCE_PATTERN: the pattern has no anchor  *)
(* and looks at nothing before the match, so that it matches the rest of   *)
(* the text as it would match a text of its own.                           *)
TextFrom(txt, lastIndex) == SubSeq(txt, lastIndex + 1, Len(txt))

\* A faulty variant of LastIndexAfter: REFERENCE_PATTERN itself is advanced to
\* the end of the first match, as REFERENCE_PATTERN.exec(text) leaves it.
LastIndexAfterExec(txt, lastIndex) ==
    LET ms == MatchAll(TextFrom(txt, lastIndex), 1) IN
    IF ms = <<>> THEN 0 ELSE lastIndex + ms[1].end

\* REFERENCE_PATTERN.lastIndex after text.matchAll(REFERENCE_PATTERN): the
\* copy is advanced, REFERENCE_PATTERN is not written.
LastIndexAfter(txt, lastIndex) == lastIndex

\* A caller applies parseReferences to its text.
Parse ==
    /\ parsePc = "ready"
    /\ references' = parseReferences(TextFrom(text, patternLastIndex))
    /\ patternLastIndex' = LastIndexAfter(text, patternLastIndex)
    /\ parsed' = Append(parsed, [text |-> text, references |-> references'])
    /\ parsePc' = "done"
    /\ UNCHANGED <<text, rpcVars, eventVars>>

InitParse ==
    /\ text \in Texts
    /\ references = <<>>
    /\ parsePc = "ready"
    /\ patternLastIndex = 0
    /\ parsed = <<>>
    /\ RpcIdle
    /\ EventIdle

NextParse == Parse

SpecParse == InitParse /\ [][NextParse]_vars

\* ------------------------------------------------------------------ SpecParseCalls
\* The texts of calls of parseReferences made one after the other in one
\* isolate, which share the module's REFERENCE_PATTERN.
CallLexemes == {Word("Closes"), Ws(" "), Id("ODP-", <<1>>), Id("ODP-", <<2>>)}
CallTexts == UNION {[1..n -> CallLexemes] : n \in 0..MaxCallLen}

\* The next call, on a text of its own.
ParseAgain ==
    /\ parsePc = "done"
    /\ Len(parsed) < MaxParseCalls
    /\ text' \in CallTexts
    /\ references' = <<>>
    /\ parsePc' = "ready"
    /\ UNCHANGED <<patternLastIndex, parsed, rpcVars, eventVars>>

InitParseCalls ==
    /\ text \in CallTexts
    /\ references = <<>>
    /\ parsePc = "ready"
    /\ patternLastIndex = 0
    /\ parsed = <<>>
    /\ RpcIdle
    /\ EventIdle

NextParseCalls == Parse \/ ParseAgain

SpecParseCalls == InitParseCalls /\ [][NextParseCalls]_vars

\* ------------------------------------------------------------------ events
\* JavaScript truthiness of a StageRef | undefined: 0, "" and undefined are falsy.
Truthy(stage) ==
    CASE stage.kind = "number" -> stage.num # 0
      [] stage.kind = "string" -> stage.str # ""
      [] OTHER -> FALSE

\* commit.message.split("\n")[0]
RECURSIVE FirstLine(_)
FirstLine(message) ==
    IF message = <<>> \/ Head(message) = Ws("\n") THEN <<>>
    ELSE <<Head(message)>> \o FirstLine(Tail(message))

\* allReferences.get(taskId): the position of the entry, 0 for undefined.
MapIndex(map, taskId) ==
    IF \E k \in 1..Len(map) : map[k].taskId = taskId
    THEN CHOOSE k \in 1..Len(map) : map[k].taskId = taskId
    ELSE 0

\* A faulty variant of MapSet: a key set again moves to the end.
MapSetMovesLast(map, taskId, value) ==
    Append(SelectSeq(map, LAMBDA e : e.taskId # taskId),
           [taskId |-> taskId, value |-> value])

\* A faulty variant of MapSet: an entry is added although the key exists.
MapSetAppends(map, taskId, value) == Append(map, [taskId |-> taskId, value |-> value])

\* allReferences.set(taskId, value): an existing key keeps its position.
MapSet(map, taskId, value) ==
    LET k == MapIndex(map, taskId) IN
    IF k = 0 THEN Append(map, [taskId |-> taskId, value |-> value])
    ELSE [map EXCEPT ![k] = [taskId |-> taskId, value |-> value]]

\* A faulty variant of ShouldSet: every later reference replaces the entry.
ShouldSetAlways(map, ref) == TRUE

\* A faulty variant of ShouldSet: only the first reference to a task is kept.
ShouldSetFirstOnly(map, ref) == MapIndex(map, ref.taskId) = 0

\* if (!existing || ref.action === "close")
ShouldSet(map, ref) == MapIndex(map, ref.taskId) = 0 \/ ref.action = "close"

\* ref: existing?.ref.action === "close" ? existing.ref : ref
KeptRef(map, ref) ==
    LET k == MapIndex(map, ref.taskId) IN
    IF k # 0 /\ map[k].value.ref.action = "close" THEN map[k].value.ref ELSE ref

\* commit.id.substring(0, 7) of an id given as its first 7 characters and the rest
Substring07(id) == id.first7

\* The inner loop of handlePushEvent over the references of one commit.
RECURSIVE FoldRefs(_, _, _)
FoldRefs(map, rs, commit) ==
    IF rs = <<>> THEN map
    ELSE LET ref == Head(rs) IN
         FoldRefs(IF ShouldSet(map, ref)
                  THEN MapSet(map, ref.taskId,
                              [ref |-> KeptRef(map, ref),
                               shortSha |-> Substring07(commit.id),
                               commitUrl |-> commit.url,
                               commitTitle |-> FirstLine(commit.message),
                               authorEmail |-> commit.email])
                  ELSE map,
                  Tail(rs), commit)

\* The outer loop of handlePushEvent over the commits.
RECURSIVE FoldCommits(_, _)
FoldCommits(map, commits) ==
    IF commits = <<>> THEN map
    ELSE FoldCommits(FoldRefs(map, parseReferences(Head(commits).message), Head(commits)),
                     Tail(commits))

\* The entries of result.errors.
TaskError(taskId, reason) == [scope |-> "ODP-", taskId |-> taskId, reason |-> reason]
CommentError(reason) == [scope |-> "GitHub comment failed", taskId |-> 0, reason |-> reason]

\* A faulty variant of NotFound: the absent task is counted as processed.
NotFoundCounted(res, taskId) ==
    [processed |-> res.processed + 1,
     errors |-> Append(res.errors, TaskError(taskId, "Task not found"))]

\* result.errors.push(`ODP-${taskId}: Task not found`); continue
NotFound(res, taskId) ==
    [res EXCEPT !.errors = Append(@, TaskError(taskId, "Task not found"))]

\* A faulty variant of Caught: the error is recorded without its task.
CaughtUnscoped(res, taskId, message) ==
    [res EXCEPT !.errors = Append(@, [scope |-> "", taskId |-> 0, reason |-> message])]

\* catch (error) { result.errors.push(`ODP-${taskId}: ${error.message}`) }
Caught(res, taskId, message) ==
    [res EXCEPT !.errors = Append(@, TaskError(taskId, message))]

\* A faulty variant of Processed: a reference is counted twice.
ProcessedTwice(res) == [res EXCEPT !.processed = @ + 2]

\* result.processed++
Processed(res) == [res EXCEPT !.processed = @ + 1]

\* A faulty variant of PushSetsStage: the stage is set for every reference.
PushSetsStageAlways(ref) == TRUE

\* if (ref.action === "close") await odoo.setStage(taskId)
PushSetsStage(ref) == ref.action = "close"

\* const isMerged / isClosed / isOpened
isMerged(ev) == ev.action = "closed" /\ ev.merged
isClosed(ev) == ev.action = "closed" /\ ~ev.merged
isOpened(ev) == ev.action = "opened" \/ ev.action = "reopened"

\* getTargetStage, NoStage for null
getTargetStage(ev, st, refAction) ==
    IF isMerged(ev) /\ refAction = "close" THEN st.done
    ELSE IF isClosed(ev) /\ Truthy(st.canceled) THEN st.canceled
    ELSE IF isOpened(ev) /\ Truthy(st.inProgress) THEN st.inProgress
    ELSE NoStage

\* event.action === "closed" ? (pr.merged ? "merged" : "closed") : event.action
ActionWord(ev) ==
    IF ev.action = "closed" THEN (IF ev.merged THEN "merged" ELSE "closed") ELSE ev.action

\* A faulty variant of PostsComment: the action is not looked at.
PostsCommentAlsoOnClose(cfg, updated, ev) == cfg /\ Len(updated) > 0

\* A faulty variant of PostsComment: the updated tasks are not looked at.
PostsCommentWhenNoneUpdated(cfg, updated, ev) == cfg /\ ev.action # "closed"

\* if (githubConfig && updatedTasks.length > 0 && event.action !== "closed")
PostsComment(cfg, updated, ev) == cfg /\ Len(updated) > 0 /\ ev.action # "closed"

(* The body of the summary comment, a sequence of pieces: the fixed text,   *)
(* then `ODP-${taskId}` for each updated task, joined by ", ".              *)
Piece(s) == [kind |-> "text", s |-> s, taskId |-> 0]
TaskLabel(taskId) == [kind |-> "task", s |-> "ODP-", taskId |-> taskId]

\* Array.prototype.join(sep)
RECURSIVE Join(_, _)
Join(seq, sep) ==
    IF seq = <<>> THEN <<>>
    ELSE IF Len(seq) = 1 THEN <<Head(seq)>>
    ELSE <<Head(seq), sep>> \o Join(Tail(seq), sep)

\* const comment = `Updated Odoo tasks: ${updatedTasks.join(", ")}`
Comment(updated) ==
    <<Piece("Updated Odoo tasks: ")>>
    \o Join([i \in 1..Len(updated) |-> TaskLabel(updated[i])], Piece(", "))

(* What the fetch of postPRComment meets: a response of GitHub with its     *)
(* status, or a rejection.                                                  *)
GitHubResponse(status) == [type |-> "response", status |-> status]
GitHubRejection == [type |-> "throw", status |-> 0]
GitHubAnswers ==
    {GitHubResponse(201), GitHubResponse(401), GitHubResponse(403),
     GitHubResponse(404), GitHubRejection}

\* postPRComment throws: fetch rejected, or if (!response.ok)
postPRCommentThrows(answer) == answer.type = "throw" \/ ~ResponseOk(answer.status)

\* error.message of what postPRComment throws
postPRCommentMessage(answer) ==
    IF answer.type = "throw" THEN "fetch failed"
    ELSE "GitHub API error: " \o ToString(answer.status)

\* A faulty variant of CommentCaught: the failure is swallowed.
CommentSwallowed(res, message) == res

\* catch (error) { result.errors.push(`GitHub comment failed: ${error.message}`) }
CommentCaught(res, message) ==
    [res EXCEPT !.errors = Append(@, CommentError(message))]

\* pr.body: string | null
NullBody == [null |-> TRUE, text |-> <<>>]
Body(txt) == [null |-> FALSE, text |-> txt]

\* `${pr.title}\n${pr.body ?? ""}`
textToSearch(ev) == ev.title \o <<Ws("\n")>> \o (IF ev.body.null THEN <<>> ELSE ev.body.text)

\* The record of one call: a method of the client, or postPRComment.
NoMessage == [source |-> "", sha |-> 0, url |-> 0, title |-> <<>>, number |-> 0, word |-> ""]
CommitMessage(c) ==
    [source |-> "commit", sha |-> c.shortSha, url |-> c.commitUrl, title |-> c.commitTitle,
     number |-> 0, word |-> ""]
PRMessage(ev) ==
    [source |-> "PR", sha |-> 0, url |-> 0, title |-> <<>>, number |-> ev.number,
     word |-> ActionWord(ev)]
Call(op, taskId, outcome) ==
    [op |-> op, taskId |-> taskId, outcome |-> outcome, message |-> NoMessage,
     author |-> 0, stage |-> NoStage, target |-> NoStage, body |-> <<>>]

\* What the client's methods and postPRComment may answer.  A method that
\* throws, throws the error of the rpc call that failed.
RpcFailure == "Odoo RPC error: Access denied"

\* const ref = stageRef ?? this.config.stages.done
EffectiveStage(stageRef, st) == IF stageRef = NoStage THEN st.done ELSE stageRef

\* ------------------------------------------------------------------ client
(* The methods of OdooClient, each as the remote requests it issues, in    *)
(* order, and what it returns or throws, given what the server answers to  *)
(* each request.  A request is one call of rpc, retries included: it is    *)
(* answered with a result, with an empty result, or it throws.             *)
Req(kind, arg, answer) == [kind |-> kind, arg |-> arg, answer |-> answer, ref |-> 0]

\* The JSON-RPC service a request of the client addresses: every method of
\* the client calls execute_kw of the service "object"; the comment goes to
\* GitHub.
Service(kind) == IF kind = "github.issues.comments" THEN "github" ELSE "object"

RpcAnswers == {"result", "empty", "throw"}
WriteAnswers == {"result", "throw"}

\* The requests of one method, marked with the reference they are made for.
Tag(reqs, taskId) == [i \in 1..Len(reqs) |-> [reqs[i] EXCEPT !.ref = taskId]]

\* The stage of the task after a method that wrote the stage ids in written.
Written(stageOf, taskId, written) ==
    IF written = <<>> THEN stageOf ELSE [stageOf EXCEPT ![taskId] = written[1]]

\* What the server holds: the partner of the user with a given email, of the
\* default user, the id of the Note subtype and of a stage found by name.
PartnerOfEmail(email) == 100 + email
PartnerOfUser(userId) == 2 * userId
NoteSubtypeId == 1
StageIdOfName(name) == 50

\* email?: undefined is 0; config.defaultUserId: undefined is 0
NoEmail == 0

\* A faulty variant of getTask: a task is returned although none was found.
getTaskNeverNull(id, a) ==
    [reqs |-> <<Req("project.task.search_read", id, a)>>,
     throws |-> a = "throw",
     value |-> id]

\* getTask, lines 104-120: the task, or null (0)
getTask(id, a) ==
    [reqs |-> <<Req("project.task.search_read", id, a)>>,
     throws |-> a = "throw",
     value |-> IF a = "result" THEN id ELSE 0]

\* getUserByEmail, lines 122-139, as the partner id of the user found, 0 for null
getUserByEmail(email, a) ==
    [reqs |-> <<Req("res.users.search_read", email, a)>>,
     throws |-> a = "throw",
     value |-> IF a = "result" THEN PartnerOfEmail(email) ELSE 0]

\* A faulty variant of getPartnerIdForUser: the partner of the user is never
\* returned.
getPartnerIdForUserNull(userId, a) ==
    [reqs |-> <<Req("res.users.read", userId, a)>>,
     throws |-> a = "throw",
     value |-> 0]

\* getPartnerIdForUser, lines 141-161
getPartnerIdForUser(userId, a) ==
    [reqs |-> <<Req("res.users.read", userId, a)>>,
     throws |-> a = "throw",
     value |-> IF a = "result" THEN PartnerOfUser(userId) ELSE 0]

\* getNoteSubtypeId, lines 163-184: subtypeCache is 0 for null
getNoteSubtypeId(subtype, a) ==
    IF subtype # 0
    THEN [reqs |-> <<>>, throws |-> FALSE, value |-> subtype, subtype |-> subtype]
    ELSE [reqs |-> <<Req("mail.message.subtype.search_read", 0, a)>>,
          throws |-> a = "throw",
          value |-> IF a = "result" THEN NoteSubtypeId ELSE 0,
          subtype |-> IF a = "result" THEN NoteSubtypeId ELSE 0]

\* partnerIdCache: a Map from email to partner id, as a set of entries
CacheHas(cache, email) == \E c \in cache : c.email = email
CacheGet(cache, email) == (CHOOSE c \in cache : c.email = email).partnerId
\* A faulty variant of CacheSet: nothing is cached.
CacheSetDropped(cache, email, partnerId) == cache

\* this.partnerIdCache.set(email, partnerId)
CacheSet(cache, email, partnerId) ==
    {c \in cache : c.email # email} \cup {[email |-> email, partnerId |-> partnerId]}

\* const odooEmail = mapping?.[email] ?? email
OdooEmail(mapping, email) ==
    IF \E m \in mapping : m.from = email
    THEN (CHOOSE m \in mapping : m.from = email).to
    ELSE email

AuthorRun(reqs, throws, value, cache) ==
    [reqs |-> reqs, throws |-> throws, value |-> value, cache |-> cache]

\* resolveAuthorPartnerId, lines 213-251
resolveAuthorPartnerId(email, cache, cfg, a1, a2) ==
    IF email = NoEmail
    THEN IF cfg.defaultUserId # 0
         THEN LET p == getPartnerIdForUser(cfg.defaultUserId, a2) IN
              AuthorRun(p.reqs, p.throws, p.value, cache)
         ELSE AuthorRun(<<>>, FALSE, 0, cache)
    ELSE IF CacheHas(cache, email)
    THEN AuthorRun(<<>>, FALSE, CacheGet(cache, email), cache)
    ELSE LET u == getUserByEmail(OdooEmail(cfg.userMapping, email), a1) IN
         IF u.throws THEN AuthorRun(u.reqs, TRUE, 0, cache)
         ELSE IF u.value # 0
         THEN AuthorRun(u.reqs, FALSE, u.value, CacheSet(cache, email, u.value))
         ELSE IF cfg.defaultUserId # 0
         THEN LET p == getPartnerIdForUser(cfg.defaultUserId, a2) IN
              IF p.throws THEN AuthorRun(u.reqs \o p.reqs, TRUE, 0, cache)
              ELSE IF p.value # 0
              THEN AuthorRun(u.reqs \o p.reqs, FALSE, p.value,
                             CacheSet(cache, email, p.value))
              ELSE AuthorRun(u.reqs \o p.reqs, FALSE, 0, cache)
         ELSE AuthorRun(u.reqs, FALSE, 0, cache)

\* The record created in mail.message
MailMessage(taskId, body, authorId, subtypeId) ==
    [res_id |-> taskId, body |-> body, author_id |-> authorId, subtype_id |-> subtypeId]

MessageRun(reqs, throws, created, cache, subtype) ==
    [reqs |-> reqs, throws |-> throws, created |-> created, cache |-> cache,
     subtype |-> subtype]

\* A faulty variant of addMessage: the message is created before its author
\* is resolved.
addMessageCreatesFirst(taskId, body, authorEmail, cache, subtype, cfg, a1, a2, a3, a4) ==
    LET r == resolveAuthorPartnerId(authorEmail, cache, cfg, a1, a2)
        n == getNoteSubtypeId(subtype, a3)
        create == Req("mail.message.create", taskId, a4)
    IN IF a4 = "throw" THEN MessageRun(<<create>>, TRUE, <<>>, cache, subtype)
       ELSE IF r.throws THEN MessageRun(<<create>> \o r.reqs, TRUE, <<>>, r.cache, subtype)
       ELSE IF n.throws
       THEN MessageRun(<<create>> \o r.reqs \o n.reqs, TRUE, <<>>, r.cache, subtype)
       ELSE MessageRun(<<create>> \o r.reqs \o n.reqs, FALSE,
                       <<MailMessage(taskId, body, r.value, n.value)>>, r.cache, n.subtype)

\* addMessage, lines 253-284; created is the sequence of records created
addMessage(taskId, body, authorEmail, cache, subtype, cfg, a1, a2, a3, a4) ==
    LET r == resolveAuthorPartnerId(authorEmail, cache, cfg, a1, a2)
        n == getNoteSubtypeId(subtype, a3)
        create == Req("mail.message.create", taskId, a4)
    IN IF r.throws THEN MessageRun(r.reqs, TRUE, <<>>, r.cache, subtype)
       ELSE IF n.throws THEN MessageRun(r.reqs \o n.reqs, TRUE, <<>>, r.cache, subtype)
       ELSE IF a4 = "throw"
       THEN MessageRun(r.reqs \o n.reqs \o <<create>>, TRUE, <<>>, r.cache, n.subtype)
       ELSE MessageRun(r.reqs \o n.reqs \o <<create>>, FALSE,
                       <<MailMessage(taskId, body, r.value, n.value)>>, r.cache, n.subtype)

\* resolveStage, lines 286-307
resolveStage(ref, a) ==
    IF ref.kind = "number"
    THEN [reqs |-> <<>>, throws |-> FALSE, null |-> FALSE, value |-> ref.num]
    ELSE [reqs |-> <<Req("project.task.type.search_read", 0, a)>>,
          throws |-> a = "throw",
          null |-> a = "empty",
          value |-> IF a = "result" THEN StageIdOfName(ref.str) ELSE 0]

StageRun(reqs, outcome, message, written) ==
    [reqs |-> reqs, outcome |-> outcome, message |-> message, written |-> written]

\* A faulty variant of setStage: the write is issued although no stage was found.
setStageWritesUnresolved(taskId, stageRef, st, a1, a2) ==
    LET ref == EffectiveStage(stageRef, st)
        s == resolveStage(ref, a1)
        write == Req("project.task.write", taskId, a2)
    IN IF s.throws THEN StageRun(s.reqs, "throw", RpcFailure, <<>>)
       ELSE IF a2 = "throw" THEN StageRun(s.reqs \o <<write>>, "throw", RpcFailure, <<>>)
       ELSE StageRun(s.reqs \o <<write>>, "ok", "", <<s.value>>)

\* setStage, lines 309-329; written is the stage id written, if one was
setStage(taskId, stageRef, st, a1, a2) ==
    LET ref == EffectiveStage(stageRef, st)
        s == resolveStage(ref, a1)
        write == Req("project.task.write", taskId, a2)
    IN IF s.throws THEN StageRun(s.reqs, "throw", RpcFailure, <<>>)
       ELSE IF s.null
       THEN StageRun(s.reqs, "not found", "Stage not found: " \o ref.str, <<>>)
       ELSE IF a2 = "throw" THEN StageRun(s.reqs \o <<write>>, "throw", RpcFailure, <<>>)
       ELSE StageRun(s.reqs \o <<write>>, "ok", "", <<s.value>>)

\* ------------------------------------------------------------------ Spec
Id1 == Id("ODP-", <<1>>)
Id2 == Id("ODP-", <<2>>)

\* The pull-request titles of the events handled.
EventTexts ==
    {<<Word("x")>>,
     <<Id1>>,
     <<Word("Closes"), Ws(" "), Id1>>,
     <<Id2>>,
     <<Word("FIXES"), Ws(" "), Id2>>,
     <<Id1, Ws(" "), Id2>>,
     <<Word("Refs"), Ws(" "), Id1, Ws("\n"), Word("closes"), Ws(" "), Id1>>}

\* The commit messages of the push events handled.
CommitTexts ==
    {<<Word("x")>>,
     <<Id1>>,
     <<Id2>>,
     <<Word("Closes"), Ws(" "), Id1>>,
     <<Id1, Ws(" "), Id2>>,
     <<Word("Refs"), Ws(" "), Id1, Ws("\n"), Word("closes"), Ws(" "), Id1>>}

EventBodies == {NullBody, Body(<<Word("FIXES"), Ws(" "), Id2>>)}

\* commit.author.email of commit i: missing in every commit, or each commit
\* its own.
EmailStyles == {"none", "own"}
AuthorEmail(style, i) == IF style = "none" THEN NoEmail ELSE i

\* Commit i of a push: its id and URL are its own.
Commit(i, message, email) ==
    [id |-> [first7 |-> i, rest |-> i], url |-> i, email |-> email, message |-> message]

PushEvents ==
    {[kind |-> "push",
      commits |-> [i \in 1..Len(ms) |-> Commit(i, ms[i], AuthorEmail(style, i))],
      action |-> "", merged |-> FALSE, title |-> <<>>, body |-> NullBody, number |-> 0] :
        ms \in UNION {[1..n -> CommitTexts] : n \in 0..MaxCommits}, style \in EmailStyles}

\* pull_request.user.login of the pull requests handled; it is no commit email.
UserLogin == 9

PullRequestActions == {"opened", "edited", "closed", "reopened", "labeled"}

\* pr.merged is true only of a pull request that was closed by a merge: it is
\* false when the pull request is opened or reopened.
PullRequestEvents ==
    {ev \in {[kind |-> "pull_request", commits |-> <<>>,
              action |-> a, merged |-> m, title |-> t, body |-> b, number |-> 42] :
                a \in PullRequestActions, m \in BOOLEAN, t \in EventTexts,
                b \in EventBodies} :
        ev.merged => ev.action \notin {"opened", "reopened"}}

StageConfigs ==
    {[done |-> d, inProgress |-> o.inProgress, canceled |-> o.canceled] :
        d \in {NumberRef(5), NumberRef(0), NameRef("Done")},
        o \in {[inProgress |-> NoStage, canceled |-> NoStage],
               [inProgress |-> NumberRef(2), canceled |-> NumberRef(6)]}}

\* ------------------------------------------------------------------ worker
\* env.GITHUB_WEBHOOK_SECRET
GITHUB_WEBHOOK_SECRET == "test-secret"

(* The x-hub-signature-256 header: null, or a text that does or does not   *)
(* start with "sha256=" and carries the HMAC of some payload under some    *)
(* secret; intact tells that the payload signed is the payload sent.       *)
NullSignature == [null |-> TRUE, prefix |-> "", secret |-> "", intact |-> FALSE]
Signature(prefix, secret, intact) ==
    [null |-> FALSE, prefix |-> prefix, secret |-> secret, intact |-> intact]

\* A faulty variant of verifyWebhookSignature: a signature that carries the
\* prefix is accepted without the comparison.
verifyWebhookSignaturePrefixOnly(payload, signature, secret) ==
    /\ ~signature.null
    /\ signature.prefix = "sha256="

\* verifyWebhookSignature: the prefix test, then the comparison with the
\* HMAC of the payload under the secret.
verifyWebhookSignature(payload, signature, secret) ==
    /\ ~signature.null
    /\ signature.prefix = "sha256="
    /\ signature.secret = secret
    /\ signature.intact

\* The payload: the JSON text of an event, or a text that is no JSON.
\* missing names the properties the JSON object lacks of those the handler of
\* its event type reads: reading one gives undefined.
JsonPayload(ev) == [json |-> TRUE, event |-> ev, missing |-> {}]
PartialPayload(ev, missing) == [json |-> TRUE, event |-> ev, missing |-> missing]
InvalidJson ==
    [json |-> FALSE, missing |-> {},
     event |-> [kind |-> "none", commits |-> <<>>, action |-> "", merged |-> FALSE,
                title |-> <<>>, body |-> NullBody, number |-> 0]]

\* request.headers.get("x-github-event"): null when the header is missing
NullHeader == "null"

Request(method, path, eventType, signature, payload) ==
    [method |-> method, path |-> path, eventType |-> eventType,
     signature |-> signature, payload |-> payload]

\* The responses of fetch: new Response(text, {status}) and Response.json(body, {status})
JsonBody(keys, status, eventType, processed, errors, message) ==
    [keys |-> keys, status |-> status, event |-> eventType, processed |-> processed,
     errors |-> errors, message |-> message]
NoJson == JsonBody({}, "", "", 0, <<>>, "")
TextResponse(txt, status) == [status |-> status, text |-> txt, body |-> NoJson]
JsonResponse(body, status) == [status |-> status, text |-> "", body |-> body]

\* Lines 28-48: the checks made before the payload is read as JSON; NoResponse
\* when the request passes them.
Validate(req) ==
    IF req.method # "POST" THEN TextResponse("Method not allowed", 405)
    ELSE IF req.path # "/webhook" THEN TextResponse("Not found", 404)
    ELSE IF req.eventType = NullHeader THEN TextResponse("Missing event type", 400)
    ELSE IF ~verifyWebhookSignature(req.payload, req.signature, GITHUB_WEBHOOK_SECRET)
         THEN TextResponse("Invalid signature", 401)
    ELSE NoResponse

\* A faulty variant of ResultResponse: a result with errors fails the request.
ResultResponseFailsOnErrors(eventType, res) ==
    IF res.errors = <<>>
    THEN JsonResponse(JsonBody({"status", "event", "processed", "errors"}, "ok", eventType,
                               res.processed, res.errors, ""), 200)
    ELSE JsonResponse(JsonBody({"status", "message"}, "error", "", 0, <<>>,
                               "Processing failed"), 500)

\* Lines 90-95 and 100-105: Response.json({status: "ok", event, processed, errors})
ResultResponse(eventType, res) ==
    JsonResponse(JsonBody({"status", "event", "processed", "errors"}, "ok", eventType,
                          res.processed, res.errors, ""), 200)

\* A faulty variant of AcknowledgeResponse: every acknowledgement is that of
\* a ping.
AcknowledgeResponseAsPing(eventType) ==
    JsonResponse(JsonBody({"status", "event"}, "ok", "ping", 0, <<>>, ""), 200)

\* Lines 108-112: ping and the event types that are not handled
AcknowledgeResponse(eventType) ==
    IF eventType = "ping"
    THEN JsonResponse(JsonBody({"status", "event"}, "ok", eventType, 0, <<>>, ""), 200)
    ELSE JsonResponse(JsonBody({"status", "event", "message"}, "ok", eventType, 0, <<>>,
                               "Event type not handled"), 200)

\* Lines 113-121: the catch of fetch
ErrorResponse(message) ==
    JsonResponse(JsonBody({"status", "message"}, "error", "", 0, <<>>, message), 500)

\* The requests received.  A delivery to a handler carries an event of the
\* kind its x-github-event header names.
Methods == {"POST", "GET"}
Paths == {"/webhook", "/"}
EventTypes == {"push", "pull_request", "ping", "issues", NullHeader}
Signatures ==
    {NullSignature,
     Signature("sha256=", GITHUB_WEBHOOK_SECRET, TRUE),
     Signature("sha256=", GITHUB_WEBHOOK_SECRET, FALSE),
     Signature("sha256=", "other-secret", TRUE),
     Signature("", GITHUB_WEBHOOK_SECRET, TRUE)}

Deliveries ==
    {Request("POST", "/webhook", ev.kind, Signature("sha256=", GITHUB_WEBHOOK_SECRET, TRUE),
             JsonPayload(ev)) : ev \in PushEvents \cup PullRequestEvents}

OtherRequests ==
    {Request(m, p, t, sig, InvalidJson) :
        m \in Methods, p \in Paths, t \in EventTypes, sig \in Signatures}
    \cup {Request(m, p, t, sig, JsonPayload(ev)) :
            m \in Methods, p \in Paths, t \in EventTypes \ {"push", "pull_request"},
            sig \in Signatures, ev \in {e \in PushEvents : Len(e.commits) = 0}}

\* Deliveries of an event to /webhook whose signature is missing, lacks the
\* prefix, was made under another secret or is that of another payload.
ForgedDeliveries ==
    {Request("POST", "/webhook", ev.kind, sig, JsonPayload(ev)) :
        sig \in Signatures \ {Signature("sha256=", GITHUB_WEBHOOK_SECRET, TRUE)},
        ev \in {e \in PushEvents \cup PullRequestEvents :
                    e.kind = "push" => Len(e.commits) = 1}}

\* config.defaultUserId and config.userMapping of the client
ClientConfigs ==
    [defaultUserId : {0, 10}, userMapping : {{[from |-> 2, to |-> 3]}}]

\* The request reaches handlePushEvent or handlePullRequestEvent.
Dispatched(req) ==
    /\ Validate(req) = NoResponse
    /\ req.payload.json
    /\ req.eventType \in {"push", "pull_request"}

Init ==
    /\ ParseIdle
    /\ RpcIdle
    /\ request \in Deliveries \cup OtherRequests \cup ForgedDeliveries
    /\ response = NoResponse
    /\ event = NoEvent
    /\ stages \in (IF Dispatched(request) /\ request.eventType = "pull_request"
                   THEN StageConfigs
                   ELSE IF Dispatched(request)
                   THEN {st \in StageConfigs :
                            st.inProgress = NoStage /\ st.canceled = NoStage}
                   ELSE {[done |-> NumberRef(5), inProgress |-> NoStage,
                          canceled |-> NoStage]})
    /\ githubConfig \in (IF Dispatched(request) /\ request.eventType = "pull_request"
                         THEN BOOLEAN ELSE {FALSE})
    /\ config \in (IF Dispatched(request) THEN ClientConfigs ELSE {NoConfig})
    /\ deliveries = 1
    /\ partnerIdCache = {}
    /\ subtypeCache = 0
    /\ requests = <<>>
    /\ mailMessages = <<>>
    /\ taskStage = [t \in Tasks |-> NotWritten]
    /\ pc = "idle"
    /\ allReferences = <<>>
    /\ refs = <<>>
    /\ idx = 0
    /\ result = [processed |-> 0, errors |-> <<>>]
    /\ updatedTasks = <<>>
    /\ calls = <<>>
    /\ authorCalls = <<>>

(* fetch, lines 27-88 and 98: the checks, the client and the comment       *)
(* configuration built from env, JSON.parse(payload) and the dispatch on   *)
(* the event type.                                                         *)
Fetch ==
    /\ pc = "idle"
    /\ request.method # "none"
    /\ response.status = 0
    /\ LET early == Validate(request) IN
       IF early.status # 0
       THEN response' = early /\ pc' = "responded" /\ event' = event
       ELSE IF ~request.payload.json
       THEN response' = ErrorResponse("Unexpected token") /\ pc' = "responded"
            /\ event' = event
       ELSE IF request.eventType \in {"push", "pull_request"}
       THEN response' = response /\ pc' = "start" /\ event' = request.payload.event
       ELSE response' = AcknowledgeResponse(request.eventType) /\ pc' = "responded"
            /\ event' = request.payload.event
    /\ partnerIdCache' = {}
    /\ subtypeCache' = 0
    /\ UNCHANGED <<request, deliveries, config, stages, githubConfig, allReferences, refs,
                   idx, result, updatedTasks, calls, requests, trackerVars,
                   parseVars, rpcVars, authorCalls>>

\* Lines 90-95 and 100-105: the result of the handler is returned as JSON
Respond ==
    /\ pc = "done"
    /\ response' = ResultResponse(request.eventType, result)
    /\ pc' = "responded"
    /\ UNCHANGED <<request, deliveries, config, event, stages, githubConfig, allReferences,
                   refs, idx, result, updatedTasks, calls, remoteVars, parseVars, rpcVars, authorCalls>>

\* handlePushEvent, lines 61-79: the fold of the commits' references.
HandlePushEvent ==
    /\ pc = "start"
    /\ event.kind = "push"
    /\ IF "commits" \in request.payload.missing
       THEN \* for (const commit of undefined) throws a TypeError, caught by fetch
            /\ response' = ErrorResponse("event.commits is not iterable")
            /\ pc' = "responded"
            /\ UNCHANGED <<allReferences, idx>>
       ELSE /\ allReferences' = FoldCommits(<<>>, event.commits)
            /\ idx' = 1
            /\ pc' = "push_get"
            /\ response' = response
    /\ UNCHANGED <<event, stages, githubConfig, refs, result, updatedTasks, calls,
                   parseVars, rpcVars, authorCalls, request, deliveries, config, remoteVars>>

\* A faulty variant of PushGetTask: the fetch of the next task is issued
\* together with the fetch of this one, without awaiting the work on this one.
PushGetTaskAhead ==
    /\ pc = "push_get"
    /\ idx <= Len(allReferences)
    /\ LET taskId == allReferences[idx].taskId IN
       \E a \in RpcAnswers :
        LET run == getTask(taskId, a)
            o == IF run.throws THEN "throw" ELSE IF run.value = 0 THEN "null" ELSE "task"
            ahead == IF idx < Len(allReferences)
                     THEN Tag(getTask(allReferences[idx + 1].taskId, a).reqs,
                              allReferences[idx + 1].taskId)
                     ELSE <<>>
        IN
        /\ calls' = Append(calls, Call("getTask", taskId, o))
        /\ requests' = requests \o Tag(run.reqs, taskId) \o ahead
        /\ pc' = IF o = "task" THEN "push_msg" ELSE "push_get"
        /\ idx' = IF o = "task" THEN idx ELSE idx + 1
        /\ result' = CASE o = "task" -> result
                       [] o = "null" -> NotFound(result, taskId)
                       [] OTHER -> Caught(result, taskId, RpcFailure)
    /\ UNCHANGED <<event, stages, githubConfig, allReferences, refs, updatedTasks,
                   parseVars, rpcVars, authorCalls, workerVars, deliveries, config, clientVars,
                   trackerVars>>

\* Lines 84-88: await odoo.getTask(taskId)
PushGetTask ==
    /\ pc = "push_get"
    /\ idx <= Len(allReferences)
    /\ LET taskId == allReferences[idx].taskId IN
       \E a \in RpcAnswers :
        LET run == getTask(taskId, a)
            o == IF run.throws THEN "throw" ELSE IF run.value = 0 THEN "null" ELSE "task"
        IN
        /\ calls' = Append(calls, Call("getTask", taskId, o))
        /\ requests' = requests \o Tag(run.reqs, taskId)
        /\ pc' = IF o = "task" THEN "push_msg" ELSE "push_get"
        /\ idx' = IF o = "task" THEN idx ELSE idx + 1
        /\ result' = CASE o = "task" -> result
                       [] o = "null" -> NotFound(result, taskId)
                       [] OTHER -> Caught(result, taskId, RpcFailure)
    /\ UNCHANGED <<event, stages, githubConfig, allReferences, refs, updatedTasks,
                   parseVars, rpcVars, authorCalls, workerVars, deliveries, config, clientVars,
                   trackerVars>>

\* Lines 90-91: await odoo.addMessage(taskId, message, authorEmail)
PushAddMessage ==
    /\ pc = "push_msg"
    /\ LET taskId == allReferences[idx].taskId
           commitRef == allReferences[idx].value
       IN \E a1, a2, a3 \in RpcAnswers, a4 \in WriteAnswers :
        LET run == addMessage(taskId, CommitMessage(commitRef), commitRef.authorEmail,
                              partnerIdCache, subtypeCache, config, a1, a2, a3, a4)
            o == IF run.throws THEN "throw" ELSE "ok"
        IN
        /\ calls' = Append(calls, [Call("addMessage", taskId, o) EXCEPT
                                      !.message = CommitMessage(commitRef),
                                      !.author = commitRef.authorEmail])
        /\ requests' = requests \o Tag(run.reqs, taskId)
        /\ partnerIdCache' = run.cache
        /\ subtypeCache' = run.subtype
        /\ mailMessages' = mailMessages \o run.created
        /\ pc' = IF o = "ok" /\ PushSetsStage(commitRef.ref) THEN "push_stage"
                 ELSE "push_get"
        /\ idx' = IF o = "ok" /\ PushSetsStage(commitRef.ref) THEN idx ELSE idx + 1
        /\ result' = IF o = "throw" THEN Caught(result, taskId, RpcFailure)
                     ELSE IF PushSetsStage(commitRef.ref) THEN result
                     ELSE Processed(result)
    /\ UNCHANGED <<event, stages, githubConfig, allReferences, refs, updatedTasks,
                   parseVars, rpcVars, authorCalls, workerVars, deliveries, config, taskStage>>

\* A faulty variant of AfterSetStage: the task is counted although its
\* stage-set failed.
AfterSetStageCounted(res, taskId, run) ==
    IF run.outcome = "ok" THEN Processed(res)
    ELSE Processed(Caught(res, taskId, run.message))

\* The result after setStage: result.processed++ follows the call in the try
\* block, so that a throw of setStage goes to the catch without it.
AfterSetStage(res, taskId, run) ==
    IF run.outcome = "ok" THEN Processed(res)
    ELSE Caught(res, taskId, run.message)

\* Lines 93-97: await odoo.setStage(taskId); result.processed++
PushSetStage ==
    /\ pc = "push_stage"
    /\ LET taskId == allReferences[idx].taskId
           target == EffectiveStage(NoStage, stages)
       IN \E a1 \in RpcAnswers, a2 \in WriteAnswers :
        LET run == setStage(taskId, NoStage, stages, a1, a2)
            o == run.outcome
        IN
        /\ calls' = Append(calls, [Call("setStage", taskId, o) EXCEPT
                                      !.stage = NoStage, !.target = target])
        /\ requests' = requests \o Tag(run.reqs, taskId)
        /\ taskStage' = Written(taskStage, taskId, run.written)
        /\ result' = AfterSetStage(result, taskId, run)
    /\ pc' = "push_get"
    /\ idx' = idx + 1
    /\ UNCHANGED <<event, stages, githubConfig, allReferences, refs, updatedTasks,
                   parseVars, rpcVars, authorCalls, workerVars, deliveries, config, clientVars,
                   mailMessages>>

\* Line 105: return result
PushReturn ==
    /\ pc = "push_get"
    /\ idx > Len(allReferences)
    /\ pc' = "done"
    /\ UNCHANGED <<event, stages, githubConfig, allReferences, refs, idx, result,
                   updatedTasks, calls, parseVars, rpcVars, authorCalls, workerVars, deliveries,
                   config, remoteVars>>

\* A faulty variant of HandledAction: every action is handled.
HandledActionAny(action) == TRUE

\* ["opened", "edited", "closed", "reopened"].includes(event.action)
HandledAction(action) == action \in {"opened", "edited", "closed", "reopened"}

\* handlePullRequestEvent, lines 113-130
HandlePullRequestEvent ==
    /\ pc = "start"
    /\ event.kind = "pull_request"
    /\ IF HandledAction(event.action) /\ "pull_request" \in request.payload.missing
       THEN \* pr is undefined: pr.title throws a TypeError, caught by fetch
            /\ response' = ErrorResponse("Cannot read properties of undefined (reading 'title')")
            /\ pc' = "responded"
            /\ UNCHANGED <<refs, idx>>
       ELSE LET rs == IF HandledAction(event.action)
                      THEN parseReferences(textToSearch(event))
                      ELSE <<>>
            IN /\ refs' = rs
               /\ pc' = IF rs = <<>> THEN "done" ELSE "pr_get"
               /\ idx' = IF rs = <<>> THEN 0 ELSE 1
               /\ response' = response
    /\ UNCHANGED <<event, stages, githubConfig, allReferences, result, updatedTasks,
                   calls, parseVars, rpcVars, authorCalls, request, deliveries, config, remoteVars>>

\* Lines 148-152: await odoo.getTask(ref.taskId)
PRGetTask ==
    /\ pc = "pr_get"
    /\ idx <= Len(refs)
    /\ LET taskId == refs[idx].taskId IN
       \E a \in RpcAnswers :
        LET run == getTask(taskId, a)
            o == IF run.throws THEN "throw" ELSE IF run.value = 0 THEN "null" ELSE "task"
        IN
        /\ calls' = Append(calls, Call("getTask", taskId, o))
        /\ requests' = requests \o Tag(run.reqs, taskId)
        /\ pc' = IF o = "task" THEN "pr_msg" ELSE "pr_get"
        /\ idx' = IF o = "task" THEN idx ELSE idx + 1
        /\ result' = CASE o = "task" -> result
                       [] o = "null" -> NotFound(result, taskId)
                       [] OTHER -> Caught(result, taskId, RpcFailure)
    /\ UNCHANGED <<event, stages, githubConfig, allReferences, refs, updatedTasks,
                   parseVars, rpcVars, authorCalls, workerVars, deliveries, config, clientVars,
                   trackerVars>>

\* Lines 154-159 and, with no target stage, 163-164
PRAddMessage ==
    /\ pc = "pr_msg"
    /\ LET taskId == refs[idx].taskId
           targetStage == getTargetStage(event, stages, refs[idx].action)
       IN \E a1, a2, a3 \in RpcAnswers, a4 \in WriteAnswers :
        LET run == addMessage(taskId, PRMessage(event), NoEmail,
                              partnerIdCache, subtypeCache, config, a1, a2, a3, a4)
            o == IF run.throws THEN "throw" ELSE "ok"
        IN
        /\ calls' = Append(calls, [Call("addMessage", taskId, o) EXCEPT
                                      !.message = PRMessage(event)])
        /\ requests' = requests \o Tag(run.reqs, taskId)
        /\ partnerIdCache' = run.cache
        /\ subtypeCache' = run.subtype
        /\ mailMessages' = mailMessages \o run.created
        /\ pc' = IF o = "ok" /\ Truthy(targetStage) THEN "pr_stage" ELSE "pr_get"
        /\ idx' = IF o = "ok" /\ Truthy(targetStage) THEN idx ELSE idx + 1
        /\ result' = IF o = "throw" THEN Caught(result, taskId, RpcFailure)
                     ELSE IF Truthy(targetStage) THEN result
                     ELSE Processed(result)
        /\ updatedTasks' = IF o = "ok" /\ ~Truthy(targetStage)
                           THEN Append(updatedTasks, taskId) ELSE updatedTasks
    /\ UNCHANGED <<event, stages, githubConfig, allReferences, refs, parseVars, rpcVars, authorCalls,
                   workerVars, deliveries, config, taskStage>>

\* Lines 160-164: await odoo.setStage(ref.taskId, targetStage)
PRSetStage ==
    /\ pc = "pr_stage"
    /\ LET taskId == refs[idx].taskId
           targetStage == getTargetStage(event, stages, refs[idx].action)
           target == EffectiveStage(targetStage, stages)
       IN \E a1 \in RpcAnswers, a2 \in WriteAnswers :
        LET run == setStage(taskId, targetStage, stages, a1, a2)
            o == run.outcome
        IN
        /\ calls' = Append(calls, [Call("setStage", taskId, o) EXCEPT
                                      !.stage = targetStage, !.target = target])
        /\ requests' = requests \o Tag(run.reqs, taskId)
        /\ taskStage' = Written(taskStage, taskId, run.written)
        /\ result' = AfterSetStage(result, taskId, run)
        /\ updatedTasks' = IF o = "ok" THEN Append(updatedTasks, taskId) ELSE updatedTasks
    /\ pc' = "pr_get"
    /\ idx' = idx + 1
    /\ UNCHANGED <<event, stages, githubConfig, allReferences, refs, parseVars, rpcVars, authorCalls,
                   workerVars, deliveries, config, clientVars, mailMessages>>

\* Lines 172-189: the summary comment, then return result
PRPostComment ==
    /\ pc = "pr_get"
    /\ idx > Len(refs)
    /\ PostsComment(githubConfig, updatedTasks, event)
    /\ IF "repository" \in request.payload.missing
       THEN \* event.repository.owner throws a TypeError inside the try block,
            \* before postPRComment is called
            /\ result' = CommentCaught(result,
                              "Cannot read properties of undefined (reading 'owner')")
            /\ UNCHANGED <<calls, requests>>
       ELSE \E answer \in GitHubAnswers :
        LET o == IF postPRCommentThrows(answer) THEN "throw" ELSE "ok" IN
        /\ calls' = Append(calls, [Call("postPRComment", 0, o) EXCEPT
                                      !.body = Comment(updatedTasks)])
        /\ requests' = Append(requests,
                              Req("github.issues.comments", event.number,
                                  IF o = "ok" THEN "result" ELSE "throw"))
        /\ result' = IF o = "ok" THEN result
                     ELSE CommentCaught(result, postPRCommentMessage(answer))
    /\ pc' = "done"
    /\ UNCHANGED <<event, stages, githubConfig, allReferences, refs, idx, updatedTasks,
                   parseVars, rpcVars, authorCalls, workerVars, deliveries, config, clientVars,
                   trackerVars>>

\* Lines 172, 189: no summary comment, return result
PRReturn ==
    /\ pc = "pr_get"
    /\ idx > Len(refs)
    /\ ~PostsComment(githubConfig, updatedTasks, event)
    /\ pc' = "done"
    /\ UNCHANGED <<event, stages, githubConfig, allReferences, refs, idx, result,
                   updatedTasks, calls, parseVars, rpcVars, authorCalls, workerVars, deliveries,
                   config, remoteVars>>

Next ==
    \/ Fetch
    \/ Respond
    \/ HandlePushEvent
    \/ PushGetTask
    \/ PushAddMessage
    \/ PushSetStage
    \/ PushReturn
    \/ HandlePullRequestEvent
    \/ PRGetTask
    \/ PRAddMessage
    \/ PRSetStage
    \/ PRPostComment
    \/ PRReturn

Spec == Init /\ [][Next]_vars

\* ------------------------------------------------------------------ SpecRedelivery
(* The same request is delivered again (a webhook redelivery): fetch runs  *)
(* anew, with a new client, against the tracker as the earlier deliveries  *)
(* left it.                                                                *)
Redeliver ==
    /\ pc = "responded"
    /\ deliveries < MaxDeliveries
    /\ deliveries' = deliveries + 1
    /\ pc' = "idle"
    /\ response' = NoResponse
    /\ event' = NoEvent
    /\ allReferences' = <<>>
    /\ refs' = <<>>
    /\ idx' = 0
    /\ result' = [processed |-> 0, errors |-> <<>>]
    /\ updatedTasks' = <<>>
    /\ UNCHANGED <<request, stages, githubConfig, config, calls, remoteVars,
                   parseVars, rpcVars, authorCalls>>

\* The deliveries made twice: an event that refers to one task at most, the
\* three stages configured by id, no default user, no author email.
RedeliveredEvents ==
    {ev \in PushEvents :
        /\ Len(ev.commits) <= 1
        /\ \A i \in 1..Len(ev.commits) :
              /\ Len(parseReferences(ev.commits[i].message)) <= 1
              /\ ev.commits[i].email = NoEmail}
    \cup {ev \in PullRequestEvents :
            /\ ev.body = NullBody
            /\ Len(parseReferences(ev.title)) <= 1}

InitRedelivery ==
    /\ ParseIdle
    /\ RpcIdle
    /\ request \in {d \in Deliveries : d.payload.event \in RedeliveredEvents}
    /\ response = NoResponse
    /\ event = NoEvent
    /\ stages = [done |-> NumberRef(5), inProgress |-> NumberRef(2),
                 canceled |-> NumberRef(6)]
    /\ githubConfig \in (IF request.eventType = "pull_request" THEN BOOLEAN ELSE {FALSE})
    /\ config = NoConfig
    /\ deliveries = 1
    /\ partnerIdCache = {}
    /\ subtypeCache = 0
    /\ requests = <<>>
    /\ mailMessages = <<>>
    /\ taskStage = [t \in Tasks |-> NotWritten]
    /\ pc = "idle"
    /\ allReferences = <<>>
    /\ refs = <<>>
    /\ idx = 0
    /\ result = [processed |-> 0, errors |-> <<>>]
    /\ updatedTasks = <<>>
    /\ calls = <<>>
    /\ authorCalls = <<>>

NextRedelivery == Next \/ Redeliver

SpecRedelivery == InitRedelivery /\ [][NextRedelivery]_vars

\* ------------------------------------------------------------------ SpecClient
\* The emails given to resolveAuthorPartnerId: config.userMapping maps email 2
\* to email 3, email 1 is not mapped.
Emails == 1..2

(* A caller awaits resolveAuthorPartnerId(email) on the client instance,   *)
(* with or without an email; the server answers each request it receives.  *)
ResolveAuthor ==
    /\ pc = "client"
    /\ Len(authorCalls) < MaxAuthorCalls
    /\ \E email \in Emails \cup {NoEmail}, a1, a2 \in RpcAnswers :
        LET run == resolveAuthorPartnerId(email, partnerIdCache, config, a1, a2) IN
        /\ partnerIdCache' = run.cache
        /\ requests' = requests \o run.reqs
        /\ authorCalls' = Append(authorCalls,
                                 [email |-> email, throws |-> run.throws,
                                  value |-> run.value, reqs |-> run.reqs])
    /\ UNCHANGED <<event, stages, githubConfig, pc, allReferences, refs, idx, result,
                   updatedTasks, calls, workerVars, deliveries, config, subtypeCache,
                   trackerVars, parseVars, rpcVars>>

\* A new client instance: new OdooClient(config)
InitClient ==
    /\ ParseIdle
    /\ RpcIdle
    /\ event = NoEvent
    /\ stages = [done |-> NumberRef(5), inProgress |-> NoStage, canceled |-> NoStage]
    /\ githubConfig = FALSE
    /\ pc = "client"
    /\ allReferences = <<>>
    /\ refs = <<>>
    /\ idx = 0
    /\ result = [processed |-> 0, errors |-> <<>>]
    /\ updatedTasks = <<>>
    /\ calls = <<>>
    /\ request = NoRequest
    /\ response = NoResponse
    /\ deliveries = 0
    /\ config \in ClientConfigs
    /\ partnerIdCache = {}
    /\ subtypeCache = 0
    /\ requests = <<>>
    /\ mailMessages = <<>>
    /\ taskStage = [t \in Tasks |-> NotWritten]
    /\ authorCalls = <<>>

NextClient == ResolveAuthor

SpecClient == InitClient /\ [][NextClient]_vars

\* ------------------------------------------------------------------ SpecInterleaved
(* Calls of resolveAuthorPartnerId(email) made on one instance without     *)
(* awaiting one another: each runs from one await to the next, and the     *)
(* steps of different calls interleave.  authorCalls holds the calls with  *)
(* their position: "lookup" awaiting getUserByEmail, "default" awaiting    *)
(* getPartnerIdForUser, "done" settled.                                    *)
Settled(c, throws, value) == [c EXCEPT !.at = "done", !.throws = throws, !.value = value]

\* Lines 213-233: the call up to its first await, with an email.
ResolveBegin ==
    /\ pc = "client"
    /\ Len(authorCalls) < MaxCallers
    /\ \E email \in Emails :
        LET c == [email |-> email, at |-> "lookup", missed |-> TRUE, a1 |-> "", a2 |-> "",
                  throws |-> FALSE, value |-> 0]
        IN authorCalls' = Append(authorCalls,
                IF CacheHas(partnerIdCache, email)
                THEN [Settled(c, FALSE, CacheGet(partnerIdCache, email))
                         EXCEPT !.missed = FALSE]
                ELSE c)
    /\ UNCHANGED <<event, stages, githubConfig, pc, allReferences, refs, idx, result,
                   updatedTasks, calls, workerVars, deliveries, config, clientVars,
                   requests, trackerVars, parseVars, rpcVars>>

\* Lines 233-241: getUserByEmail settles; the partner found is cached, or the
\* call goes on to the default user.
LookupSettles ==
    /\ pc = "client"
    /\ \E i \in 1..Len(authorCalls), a \in RpcAnswers :
        LET c == [authorCalls[i] EXCEPT !.a1 = a]
            u == getUserByEmail(OdooEmail(config.userMapping, c.email), a)
        IN
        /\ c.at = "lookup"
        /\ requests' = requests \o u.reqs
        /\ partnerIdCache' = IF ~u.throws /\ u.value # 0
                              THEN CacheSet(partnerIdCache, c.email, u.value)
                              ELSE partnerIdCache
        /\ authorCalls' = [authorCalls EXCEPT ![i] =
                IF u.throws THEN Settled(c, TRUE, 0)
                ELSE IF u.value # 0 THEN Settled(c, FALSE, u.value)
                ELSE IF config.defaultUserId # 0 THEN [c EXCEPT !.at = "default"]
                ELSE Settled(c, FALSE, 0)]
    /\ UNCHANGED <<event, stages, githubConfig, pc, allReferences, refs, idx, result,
                   updatedTasks, calls, workerVars, deliveries, config, subtypeCache,
                   trackerVars, parseVars, rpcVars>>

\* Lines 243-250: getPartnerIdForUser(defaultUserId) settles.
DefaultSettles ==
    /\ pc = "client"
    /\ \E i \in 1..Len(authorCalls), a \in RpcAnswers :
        LET c == [authorCalls[i] EXCEPT !.a2 = a]
            p == getPartnerIdForUser(config.defaultUserId, a)
        IN
        /\ c.at = "default"
        /\ requests' = requests \o p.reqs
        /\ partnerIdCache' = IF ~p.throws /\ p.value # 0
                              THEN CacheSet(partnerIdCache, c.email, p.value)
                              ELSE partnerIdCache
        /\ authorCalls' = [authorCalls EXCEPT ![i] = Settled(c, p.throws, p.value)]
    /\ UNCHANGED <<event, stages, githubConfig, pc, allReferences, refs, idx, result,
                   updatedTasks, calls, workerVars, deliveries, config, subtypeCache,
                   trackerVars, parseVars, rpcVars>>

NextInterleaved == ResolveBegin \/ LookupSettles \/ DefaultSettles

SpecInterleaved == InitClient /\ [][NextInterleaved]_vars

\* ------------------------------------------------------------------ SpecMalformed
\* A pull request event whose properties that are missing read as undefined.
UndefinedPullRequest ==
    [kind |-> "pull_request", commits |-> <<>>, action |-> "undefined", merged |-> FALSE,
     title |-> <<Word("undefined")>>, body |-> NullBody, number |-> 0]

(* Validly signed deliveries whose payload is JSON without the structure   *)
(* of the event: {} as a push and as a pull request, a pull request with   *)
(* an action and no pull_request object, and a pull request without its    *)
(* repository object.                                                      *)
MalformedPayloads ==
    {PartialPayload([kind |-> "push", commits |-> <<>>, action |-> "", merged |-> FALSE,
                     title |-> <<>>, body |-> NullBody, number |-> 0], {"commits"}),
     PartialPayload(UndefinedPullRequest, {"action", "pull_request", "repository"}),
     PartialPayload([UndefinedPullRequest EXCEPT !.action = "opened"], {"pull_request"})}
    \cup {PartialPayload(ev, {"repository"}) :
            ev \in {e \in PullRequestEvents : e.body = NullBody /\ ~e.merged}}

MalformedDeliveries ==
    {Request("POST", "/webhook", p.event.kind,
             Signature("sha256=", GITHUB_WEBHOOK_SECRET, TRUE), p) :
        p \in MalformedPayloads \cup {InvalidJson}}
    \cup {Request("POST", "/webhook", "pull_request",
                  Signature("sha256=", GITHUB_WEBHOOK_SECRET, TRUE), InvalidJson)}

InitMalformed ==
    /\ ParseIdle
    /\ RpcIdle
    /\ request \in MalformedDeliveries
                    \cup {d \in Deliveries : d.payload.event \in RedeliveredEvents}
    /\ response = NoResponse
    /\ event = NoEvent
    /\ stages = [done |-> NumberRef(5), inProgress |-> NumberRef(2),
                 canceled |-> NumberRef(6)]
    /\ githubConfig \in (IF request.eventType = "pull_request" THEN BOOLEAN ELSE {FALSE})
    /\ config = NoConfig
    /\ deliveries = 1
    /\ partnerIdCache = {}
    /\ subtypeCache = 0
    /\ requests = <<>>
    /\ mailMessages = <<>>
    /\ taskStage = [t \in Tasks |-> NotWritten]
    /\ pc = "idle"
    /\ allReferences = <<>>
    /\ refs = <<>>
    /\ idx = 0
    /\ result = [processed |-> 0, errors |-> <<>>]
    /\ updatedTasks = <<>>
    /\ calls = <<>>
    /\ authorCalls = <<>>

SpecMalformed == InitMalformed /\ [][Next]_vars

\* ================================================================== claims

\* ------------------------------------------------------------------ rpc claims
Last(seq) == seq[Len(seq)]

\* An attempt answered by a server error (5xx) or by 429.
ServerErrorOr429(out) ==
    out.type = "response" /\ (out.status \in 500..599 \/ out.status = 429)

\* An attempt that fails by a transient network fetch error.
NetworkFetchError(out) ==
    out.type = "throw" /\ out.error.class = "TypeError" /\ out.error.message = "fetch failed"

Transient(out) == ServerErrorOr429(out) \/ NetworkFetchError(out)

\* An attempt answered by a well-formed successful response.
Successful(out) ==
    out.type = "response" /\ out.status \in 200..299 /\ out.body = "result"

\* A non-retryable outcome, and the error it stands for.
NonRetryable(out) == ~Transient(out) /\ ~Successful(out)

ErrorOfOutcome(out) ==
    IF out.type = "throw" THEN out.error
    ELSE IF out.status \notin 200..299 THEN HttpError(out.status)
    ELSE IF out.body = "error" THEN RpcErrorOf(out.value)
    ELSE SyntaxError

AllServerErrors == \A i \in 1..Len(fetchLog) : ServerErrorOr429(fetchLog[i])

(* C7: a call whose every attempt receives 5xx or 429 makes exactly 6      *)
(* attempts (the first and 5 retries): it does not give up before the 6th, *)
(* it never makes a 7th, and it then throws the error of the last attempt. *)
C7_RetryBound ==
    /\ Len(fetchLog) <= 6
    /\ (AllServerErrors /\ Len(fetchLog) < 6) => rpcPc \in {"idle", "loop"}
    /\ (AllServerErrors /\ Len(fetchLog) = 6) =>
          /\ rpcPc = "thrown"
          /\ rpcError = HttpError(fetchLog[6].status)

C7_Witness ==
    /\ rpcPc = "thrown"
    /\ Len(fetchLog) = 6
    /\ AllServerErrors
    /\ fetchLog[5].status = 500
    /\ fetchLog[6].status = 429

(* C8: a non-retryable outcome (a non-OK status that is neither 5xx nor    *)
(* 429, a JSON-RPC error response, an exception that is no network fetch   *)
(* error) ends the call at once: it is the last attempt of the call, and   *)
(* the call throws its error.                                              *)
C8_NonRetryableThrowsAtOnce ==
    \A i \in 1..Len(fetchLog) :
        NonRetryable(fetchLog[i]) =>
            /\ i = Len(fetchLog)
            /\ rpcPc = "thrown"
            /\ rpcError = ErrorOfOutcome(fetchLog[i])

C8_Witness ==
    /\ rpcPc = "thrown"
    /\ Len(fetchLog) = 1
    /\ fetchLog[1] = Response(200, "error", "Access denied")
    /\ rpcError = RpcErrorOf("Access denied")
    /\ attempt = 0

(* C9: k transient failures (k <= 5) followed by a successful response:    *)
(* the call returns that response's result, throws nothing, and has made   *)
(* k + 1 attempts and slept k times.                                       *)
C9_SuccessAfterRetries ==
    (/\ fetchLog # <<>>
     /\ Successful(Last(fetchLog))
     /\ \A i \in 1..(Len(fetchLog) - 1) : Transient(fetchLog[i])
     /\ Len(fetchLog) - 1 <= 5)
    => /\ rpcPc = "returned"
       /\ rpcValue = Last(fetchLog).value
       /\ rpcError = NoError
       /\ attempt + 1 = Len(fetchLog)
       /\ Len(delays) = Len(fetchLog) - 1

C9_Witness ==
    /\ rpcPc = "returned"
    /\ Len(fetchLog) = 6
    /\ \A i \in 1..5 : Transient(fetchLog[i])
    /\ NetworkFetchError(fetchLog[2])
    /\ rpcValue = "v2"


\* ------------------------------------------------------------------ parser claims
\* The task ids of a sequence of references.
TaskIds(rs) == {rs[i].taskId : i \in 1..Len(rs)}

NoDuplicateTaskId(rs) ==
    \A i, j \in 1..Len(rs) : i # j => rs[i].taskId # rs[j].taskId

(* C5: the references come in order of first occurrence, no task id twice, *)
(* and the action kept for an id is that of its first match, whatever a    *)
(* later match of the same id carries.                                     *)
C5_FirstOccurrenceWins ==
    parsePc = "done" =>
        LET ms == MatchAll(text, 1)
            idOf(k) == ParseInt(ms[k].digits)
            first(n) == CHOOSE k \in 1..Len(ms) :
                            idOf(k) = n /\ \A j \in 1..(k - 1) : idOf(j) # n
        IN /\ NoDuplicateTaskId(references)
           /\ TaskIds(references) = {idOf(k) : k \in 1..Len(ms)}
           /\ \A i, j \in 1..Len(references) :
                  i < j => first(references[i].taskId) < first(references[j].taskId)
           /\ \A i \in 1..Len(references) :
                  references[i].action = ActionOf(ms[first(references[i].taskId)].keyword)

C5_Witness ==
    /\ parsePc = "done"
    /\ text = <<Id("ODP-", <<1>>), Word("closes"), Ws(" "), Id("odp-", <<0, 1>>)>>
    /\ references = <<[action |-> "ref", taskId |-> 1]>>

\* The spellings of the keywords, written out.
ClosingSpellings ==
    {"closes", "Closes", "CLOSES", "fixes", "Fixes", "FIXES",
     "resolves", "Resolves", "RESOLVES"}
ReferencingSpellings ==
    {"refs", "Refs", "REFS", "references", "References", "REFERENCES"}

\* The word that precedes the identifier at lexeme p, white space between
\* them, or UNDEFINED.
WordBefore(txt, p) ==
    LET before == {q \in 1..(p - 1) : txt[q].kind # "ws"}
        q == CHOOSE m \in before : \A o \in before : o <= m
    IN IF before # {} /\ q < p - 1 /\ txt[q].kind = "word" THEN txt[q].s ELSE UNDEFINED

\* The first identifier of the text that denotes task n.
FirstIdentifier(txt, n) ==
    CHOOSE p \in 1..Len(txt) :
        /\ txt[p].kind = "id" /\ ParseInt(txt[p].digits) = n
        /\ \A o \in 1..(p - 1) : ~(txt[o].kind = "id" /\ ParseInt(txt[o].digits) = n)

CallsOf(op, taskId) ==
    {k \in 1..Len(calls) : calls[k].op = op /\ calls[k].taskId = taskId}
Answered(op, taskId, o) == \E k \in CallsOf(op, taskId) : calls[k].outcome = o

\* The task exists and its message post succeeded.
Messaged(taskId) ==
    Answered("getTask", taskId, "task") /\ Answered("addMessage", taskId, "ok")

\* Commit i of the push carries a parsed reference r.
CommitRefers(i, r) ==
    LET rs == parseReferences(event.commits[i].message) IN
    \E j \in 1..Len(rs) : rs[j] = r

(* C1: once the commits of a push are folded, the action recorded for a    *)
(* task id is CLOSE if and only if some commit's parsed reference to that  *)
(* task is CLOSE, in whatever order the commits come; every referenced     *)
(* task has an entry.                                                      *)
C1_CloseIsSticky ==
    (event.kind = "push" /\ pc # "start") =>
        /\ \A k \in 1..Len(allReferences) :
              LET t == allReferences[k].taskId IN
              allReferences[k].value.ref.action = "close"
                  <=> \E i \in 1..Len(event.commits) :
                          CommitRefers(i, [action |-> "close", taskId |-> t])
        /\ \A i \in 1..Len(event.commits) : \A a \in {"close", "ref"}, t \in 0..2 :
              CommitRefers(i, [action |-> a, taskId |-> t])
                  => MapIndex(allReferences, t) # 0

C1_Witness ==
    /\ event.kind = "push"
    /\ pc = "done"
    /\ Len(event.commits) = 2
    /\ parseReferences(event.commits[1].message) = <<[action |-> "close", taskId |-> 1]>>
    /\ parseReferences(event.commits[2].message) = <<[action |-> "ref", taskId |-> 1]>>
    /\ Len(allReferences) = 1
    /\ allReferences[1].value.ref.action = "close"

SelectedStage(refAction) ==
    IF event.action = "closed" /\ event.merged /\ refAction = "close" THEN stages.done
    ELSE IF event.action = "closed" /\ ~event.merged /\ stages.canceled # NoStage
         THEN stages.canceled
    ELSE IF event.action \in {"opened", "reopened"} /\ stages.inProgress # NoStage
         THEN stages.inProgress
    ELSE NoStage

(* C3: at the end of handlePullRequestEvent, for every reference whose     *)
(* message post succeeded, the stage applied is the one the first matching *)
(* rule selects (done, else canceled, else inProgress), by exactly one     *)
(* setStage call; with no matching rule setStage is not called.            *)
C3_StageMatrix ==
    (event.kind = "pull_request" /\ pc = "done") =>
        \A i \in 1..Len(refs) :
            LET t == refs[i].taskId
                sel == SelectedStage(refs[i].action)
            IN Messaged(t) =>
                IF sel # NoStage
                THEN /\ Cardinality(CallsOf("setStage", t)) = 1
                     /\ \A c \in CallsOf("setStage", t) : calls[c].stage = sel
                ELSE CallsOf("setStage", t) = {}

\* The task ids the event refers to.
Referenced ==
    IF event.kind = "push" THEN {allReferences[k].taskId : k \in 1..Len(allReferences)}
    ELSE TaskIds(refs)

\* The event refers to exactly a and b, a is absent, b exists and every call
\* made for b succeeded.
AbsentAndExisting(a, b) ==
    /\ pc = "done"
    /\ a # b
    /\ Referenced = {a, b}
    /\ Answered("getTask", a, "null")
    /\ \A k \in 1..Len(calls) :
          calls[k].taskId = b => calls[k].outcome \in {"task", "ok"}

\* The errors of the result that are scoped to a task.
TaskScoped(errors) == SelectSeq(errors, LAMBDA e : e.scope = "ODP-")

CommentFailed == \E k \in 1..Len(calls) :
    calls[k].op = "postPRComment" /\ calls[k].outcome = "throw"

(* C4 as stated: absent task A and existing task B, every call for B       *)
(* succeeding: the result holds exactly one error, A's, and processed = 1. *)
C4_ExactlyOneError ==
    \A a, b \in 1..2 :
        AbsentAndExisting(a, b) =>
            /\ result.errors = <<TaskError(a, "Task not found")>>
            /\ result.processed = 1

(* C4 amended: absent task A and existing task B, every call for B         *)
(* succeeding: processed = 1 and exactly one error is scoped to a task,    *)
(* A's, in either order of reference; the only other error the result can  *)
(* hold is that of a failed summary comment of a pull-request event.       *)
C4_Isolation ==
    \A a, b \in 1..2 :
        AbsentAndExisting(a, b) =>
            /\ TaskScoped(result.errors) = <<TaskError(a, "Task not found")>>
            /\ result.processed = 1
            /\ Len(result.errors) = IF CommentFailed THEN 2 ELSE 1
            /\ CommentFailed => Last(result.errors).scope = "GitHub comment failed"

C4_Witness ==
    /\ event.kind = "pull_request"
    /\ AbsentAndExisting(2, 1)
    /\ refs[1].taskId = 1
    /\ refs[2].taskId = 2
    /\ CommentFailed
    /\ result.processed = 1

(* C10: a pull-request event whose action is closed, merged or not, never  *)
(* posts the summary comment.                                              *)
C10_NoCommentOnClose ==
    (event.kind = "pull_request" /\ event.action = "closed") =>
        \A k \in 1..Len(calls) : calls[k].op # "postPRComment"

C10_Witness ==
    /\ event.kind = "pull_request"
    /\ event.action = "closed"
    /\ event.merged
    /\ githubConfig
    /\ pc = "done"
    /\ result.processed = 2
    /\ Len(updatedTasks) = 2
    /\ \A k \in 1..Len(calls) : calls[k].op # "postPRComment"

\* The summary comments posted, as positions in calls.
CommentCalls == {k \in 1..Len(calls) : calls[k].op = "postPRComment"}

\* Every step for the task went through: it exists, its message was posted and
\* no stage set for it failed.
FullyProcessed(taskId) ==
    /\ Messaged(taskId)
    /\ ~Answered("setStage", taskId, "throw")
    /\ ~Answered("setStage", taskId, "not found")

\* The task ids of the references that were fully processed, in reference order.
ProcessedIds ==
    SelectSeq([i \in 1..Len(refs) |-> refs[i].taskId], LAMBDA t : FullyProcessed(t))

(* C11: for a pull-request event the summary comment is posted at most     *)
(* once and as the last call, after every reference has been processed; at *)
(* the end it has been posted exactly when a comment configuration is      *)
(* given, processed > 0 and the action is not closed; its body is the      *)
(* fixed text followed by the ids counted in processed, in reference       *)
(* order, with ", " between them.                                          *)
C11_SummaryComment ==
    event.kind = "pull_request" =>
        /\ Cardinality(CommentCalls) <= 1
        /\ \A k \in CommentCalls :
              LET body == calls[k].body
                  n == Len(ProcessedIds)
              IN /\ k = Len(calls)
                 /\ pc \in {"done", "responded"}
                 /\ idx > Len(refs)
                 /\ n = result.processed
                 /\ Len(body) = 2 * n
                 /\ body[1] = [kind |-> "text", s |-> "Updated Odoo tasks: ", taskId |-> 0]
                 /\ \A j \in 1..n :
                       body[2 * j] = [kind |-> "task", s |-> "ODP-", taskId |-> ProcessedIds[j]]
                 /\ \A j \in 1..(n - 1) :
                       body[2 * j + 1] = [kind |-> "text", s |-> ", ", taskId |-> 0]
        /\ pc = "done" =>
              (CommentCalls # {}
                 <=> (githubConfig /\ result.processed >= 1 /\ event.action # "closed"))

C11_Witness ==
    /\ event.kind = "pull_request"
    /\ pc = "done"
    /\ Len(refs) = 2
    /\ result.processed = 2
    /\ CommentCalls = {Len(calls)}
    /\ Last(calls).outcome = "ok"
    /\ Len(Last(calls).body) = 4

(* C12: a step in which postPRComment throws appends exactly one error,    *)
(* that of the comment, to the errors, leaves processed as it was and ends *)
(* the handler with its result.                                            *)
C12_CommentFailureIsCaught ==
    [][(/\ Len(calls') = Len(calls) + 1
        /\ Last(calls').op = "postPRComment"
        /\ Last(calls').outcome = "throw")
       => /\ result'.processed = result.processed
          /\ Len(result'.errors) = Len(result.errors) + 1
          /\ SubSeq(result'.errors, 1, Len(result.errors)) = result.errors
          /\ Last(result'.errors).scope = "GitHub comment failed"
          /\ pc' = "done"]_vars

C12_Witness ==
    /\ event.kind = "pull_request"
    /\ pc = "done"
    /\ CommentFailed
    /\ result.processed = 2
    /\ result.errors = <<CommentError("GitHub API error: 403")>>

\* ------------------------------------------------------------------ worker claims
\* A delivery of a well-formed push or pull_request event: a POST to /webhook,
\* validly signed, whose payload is the JSON of an event of the kind named.
WellFormedDelivery ==
    /\ request.method = "POST"
    /\ request.path = "/webhook"
    /\ request.signature = Signature("sha256=", GITHUB_WEBHOOK_SECRET, TRUE)
    /\ request.eventType \in {"push", "pull_request"}
    /\ request.payload.json
    /\ request.payload.event.kind = request.eventType

\* The calls that failed: an absent task, a method that threw, a stage not
\* found, a comment that could not be posted.
FailedCalls == {k \in 1..Len(calls) : calls[k].outcome \in {"null", "throw", "not found"}}

(* C13: a validly signed delivery of a well-formed push or pull_request    *)
(* event is answered with status 200 and the body {status: "ok", event,    *)
(* processed, errors} that carries the handler's result, whatever calls    *)
(* failed; each failed call is one entry of errors and nothing else is.    *)
C13_AlwaysOk ==
    (WellFormedDelivery /\ pc = "responded") =>
        /\ response.status = 200
        /\ {"status", "processed", "errors"} \subseteq response.body.keys
        /\ response.body.status = "ok"
        /\ response.body.processed = result.processed
        /\ response.body.errors = result.errors
        /\ Len(response.body.errors) = Cardinality(FailedCalls)

C13_Witness ==
    /\ WellFormedDelivery
    /\ pc = "responded"
    /\ response.status = 200
    /\ response.body.processed = 0
    /\ Len(response.body.errors) = 2
    /\ \E k \in FailedCalls : calls[k].outcome = "null"
    /\ \E k \in FailedCalls : calls[k].outcome = "throw"

\* ------------------------------------------------------------------ push metadata
\* The commits of the push that refer to the task, and the last of them.
ReferringCommits(taskId) ==
    {i \in 1..Len(event.commits) :
        \E a \in {"close", "ref"} : CommitRefers(i, [action |-> a, taskId |-> taskId])}

LastReferring(taskId) ==
    CHOOSE i \in ReferringCommits(taskId) : \A j \in ReferringCommits(taskId) : j <= i

(* C14 as stated: once the commits of a push are folded, the metadata      *)
(* recorded for a task (short hash, URL, title, author email) is that of   *)
(* the last commit of the push that references it, and the message posted  *)
(* for the task names that commit.                                         *)
C14_LatestCommitMetadata ==
    (event.kind = "push" /\ pc # "start") =>
        \A k \in 1..Len(allReferences) :
            LET t == allReferences[k].taskId
                c == event.commits[LastReferring(t)]
                v == allReferences[k].value
            IN /\ v.shortSha = c.id.first7
               /\ v.commitUrl = c.url
               /\ v.commitTitle = FirstLine(c.message)
               /\ v.authorEmail = c.email
               /\ \A m \in CallsOf("addMessage", t) :
                     calls[m].message.sha = c.id.first7 /\ calls[m].author = c.email

(* C15 as stated: a task is set to the done stage only by a pull-request   *)
(* event that is closed with merged = true.                                *)
C15_DoneOnlyOnMerge ==
    \A k \in 1..Len(calls) :
        (calls[k].op = "setStage" /\ calls[k].outcome = "ok"
            /\ calls[k].target = stages.done)
        => (event.kind = "pull_request" /\ event.action = "closed" /\ event.merged)

\* ------------------------------------------------------------------ redelivery
\* The messages the tracker holds on a task.
MessagesOn(taskId) ==
    {k \in 1..Len(mailMessages) : mailMessages[k].res_id = taskId}

(* C16 as stated: delivering the same event again leaves the tracker as    *)
(* one delivery leaves it: no task carries a further message (one event    *)
(* posts at most one message on a task), and a stage once written by the   *)
(* event is the stage of the task.                                         *)
C16_Idempotent ==
    \A t \in Tasks :
        /\ Cardinality(MessagesOn(t)) <= 1
        /\ \A k \in CallsOf("setStage", t) :
              calls[k].outcome = "ok" =>
                  taskStage[t] = IF calls[k].target.kind = "number"
                                 THEN calls[k].target.num
                                 ELSE StageIdOfName(calls[k].target.str)

\* ------------------------------------------------------------------ call order
\* The remote requests made for the reference to a task, in order.
RequestsFor(taskId) == SelectSeq(requests, LAMBDA q : q.ref = taskId)

\* What a request is for.
Purpose(kind) ==
    CASE kind = "project.task.search_read" -> "fetch-task"
      [] kind \in {"res.users.search_read", "res.users.read"} -> "resolve-author"
      [] kind \in {"mail.message.subtype.search_read", "mail.message.create"}
            -> "post-message"
      [] kind = "project.task.type.search_read" -> "resolve-stage"
      [] kind = "project.task.write" -> "set-stage"
      [] OTHER -> "comment"

\* The position of a purpose in an order of purposes.
PositionIn(order, purpose) == CHOOSE i \in 1..Len(order) : order[i] = purpose

\* The requests for every reference follow the order, and begin with the
\* fetch of the task.
FollowsOrder(order) ==
    \A t \in Tasks :
        LET rs == RequestsFor(t) IN
        /\ rs # <<>> => Purpose(rs[1].kind) = "fetch-task"
        /\ \A i, j \in 1..Len(rs) :
              i < j => PositionIn(order, Purpose(rs[i].kind))
                          <= PositionIn(order, Purpose(rs[j].kind))

(* C17 as stated: for each reference the requests come in the order        *)
(* fetch-task, resolve-author, resolve-stage, post-message, set-stage: a   *)
(* stage given by name is resolved before the message is posted.           *)
C17_StatedOrder ==
    FollowsOrder(<<"fetch-task", "resolve-author", "resolve-stage", "post-message",
                   "set-stage">>)

(* C17 amended: for each reference the requests come in the order          *)
(* fetch-task, resolve-author, post-message, resolve-stage, set-stage,     *)
(* each of fetch-task, message create, resolve-stage and set-stage at most *)
(* once; a stage given by name is resolved only after the message for the  *)
(* reference has been created, and written only after it was resolved.     *)
C17_CallOrder ==
    /\ FollowsOrder(<<"fetch-task", "resolve-author", "post-message", "resolve-stage",
                      "set-stage">>)
    /\ \A t \in Tasks :
          LET rs == RequestsFor(t)
              at(kind) == {i \in 1..Len(rs) : rs[i].kind = kind}
          IN /\ \A kind \in {"project.task.search_read", "mail.message.create",
                              "project.task.type.search_read", "project.task.write"} :
                   Cardinality(at(kind)) <= 1
             /\ \A i \in at("project.task.type.search_read") \cup at("project.task.write") :
                   \E j \in at("mail.message.create") : j < i /\ rs[j].answer = "result"
             /\ \A i \in at("mail.message.create") :
                   rs[1].kind = "project.task.search_read" /\ rs[1].answer = "result"

C17_Witness ==
    /\ pc = "done"
    /\ event.kind = "push"
    /\ \E t \in Tasks :
          LET rs == RequestsFor(t) IN
          [i \in 1..Len(rs) |-> rs[i].kind] =
              <<"project.task.search_read", "res.users.search_read", "res.users.read",
                "mail.message.subtype.search_read", "mail.message.create",
                "project.task.type.search_read", "project.task.write">>

\* ------------------------------------------------------------------ stage not found
\* The request a step adds first to those made, when it adds one.
FirstAdded == requests'[Len(requests) + 1]

\* A step in which the search of a stage by name finds nothing.
StageSearchFindsNothing ==
    /\ Len(requests') > Len(requests)
    /\ FirstAdded.kind = "project.task.type.search_read"
    /\ FirstAdded.answer = "empty"

(* C18: when the stage given by name resolves to nothing, the search is    *)
(* the only request of setStage (no stage is written), the handler adds    *)
(* exactly one error, 'Stage not found', for that reference, the message   *)
(* already posted for it stays, nothing is counted, and the loop goes on   *)
(* to the next reference.                                                  *)
C18_StageNotFound ==
    [][StageSearchFindsNothing
       => LET t == FirstAdded.ref IN
          /\ requests' = Append(requests, FirstAdded)
          /\ Last(calls').op = "setStage" /\ Last(calls').outcome = "not found"
          /\ result' = [result EXCEPT
                           !.errors = Append(@, TaskError(t, "Stage not found: Done"))]
          /\ taskStage' = taskStage
          /\ mailMessages' = mailMessages
          /\ \E k \in 1..Len(mailMessages) : mailMessages[k].res_id = t
          /\ idx' = idx + 1
          /\ pc' \in {"push_get", "pr_get"}]_vars

C18_Witness ==
    /\ pc = "done"
    /\ \E k \in 1..Len(calls) :
          /\ calls[k].op = "setStage" /\ calls[k].outcome = "not found"
          /\ \E j \in (k + 1)..Len(calls) :
                calls[j].op = "addMessage" /\ calls[j].taskId # calls[k].taskId
          /\ \E m \in 1..Len(mailMessages) : mailMessages[m].res_id = calls[k].taskId
          /\ taskStage[calls[k].taskId] = NotWritten
          /\ result.errors = <<TaskError(calls[k].taskId, "Stage not found: Done")>>
          /\ result.processed = 1

\* ------------------------------------------------------------------ the success counter
\* The stage-set of the task failed after its message was posted.
StageSetFailed(taskId) ==
    /\ Messaged(taskId)
    /\ Answered("setStage", taskId, "throw") \/ Answered("setStage", taskId, "not found")

\* The errors recorded for the task.
ErrorsOf(taskId) == {k \in 1..Len(result.errors) : result.errors[k].taskId = taskId}

(* C19 as stated: at the end of handlePushEvent the tasks counted in        *)
(* processed are those whose message was posted, so that a task whose      *)
(* stage-set failed is counted and also has an error.                      *)
C19_CountedOnMessage ==
    (event.kind = "push" /\ pc = "done") =>
        /\ result.processed = Cardinality({t \in Tasks : Messaged(t)})
        /\ \A t \in Tasks : StageSetFailed(t) => Cardinality(ErrorsOf(t)) = 1

(* C19 amended: at the end of handlePushEvent the tasks counted in          *)
(* processed are those whose message was posted and whose stage-set, if    *)
(* one was made, succeeded; a task whose message was posted but whose      *)
(* stage-set failed has its one error entry, keeps its message and is not  *)
(* counted.                                                                *)
C19_CountedAfterStageSet ==
    (event.kind = "push" /\ pc = "done") =>
        /\ result.processed = Cardinality({t \in Tasks : Messaged(t) /\ ~StageSetFailed(t)})
        /\ \A t \in Tasks :
              StageSetFailed(t) =>
                  /\ Cardinality(ErrorsOf(t)) = 1
                  /\ \E m \in 1..Len(mailMessages) : mailMessages[m].res_id = t

C19_Witness ==
    /\ event.kind = "push"
    /\ pc = "done"
    /\ StageSetFailed(1)
    /\ Messaged(2) /\ ~StageSetFailed(2)
    /\ result.processed = 1
    /\ Len(result.errors) = 1

\* ------------------------------------------------------------------ ignored pull requests
\* The pull-request event is one handlePullRequestEvent ignores: its action is
\* not handled, or its title and body carry no reference.
Ignored ==
    /\ event.kind = "pull_request"
    /\ \/ event.action \notin {"opened", "edited", "closed", "reopened"}
       \/ parseReferences(textToSearch(event)) = <<>>

(* C20: handlePullRequestEvent with an action other than opened, edited,   *)
(* closed or reopened, or with a title and body that carry no reference,   *)
(* returns {processed: 0, errors: []} and makes no remote call: no task    *)
(* lookup, no message, no stage set, no comment.                           *)
C20_IgnoredMakesNoCall ==
    (Ignored /\ pc \in {"done", "responded"}) =>
        /\ result = [processed |-> 0, errors |-> <<>>]
        /\ calls = <<>>
        /\ requests = <<>>
        /\ mailMessages = <<>>
        /\ \A t \in Tasks : taskStage[t] = NotWritten

C20_Witness ==
    /\ pc = "done"
    /\ event.kind = "pull_request"
    /\ event.action = "labeled"
    /\ parseReferences(textToSearch(event)) # <<>>
    /\ githubConfig
    /\ result = [processed |-> 0, errors |-> <<>>]
    /\ requests = <<>>

C20_WitnessNoReference ==
    /\ pc = "done"
    /\ event.kind = "pull_request"
    /\ event.action = "opened"
    /\ parseReferences(textToSearch(event)) = <<>>
    /\ githubConfig
    /\ requests = <<>>

\* ------------------------------------------------------------------ gated writes
\* The places in requests of the requests of a kind made for the task.
RequestsOfKind(kind, taskId) ==
    {k \in 1..Len(requests) : requests[k].kind = kind /\ requests[k].ref = taskId}

\* The fetch of the task found no such task.
Absent(taskId) ==
    \E k \in RequestsOfKind("project.task.search_read", taskId) :
        requests[k].answer = "empty"

(* C21: for a task whose fetch returns absent the handler records the      *)
(* error 'Task not found' once and makes no message post and no stage set  *)
(* for it; a stage set is made for a task only after the message post for  *)
(* that task has succeeded.                                                *)
C21_WritesAreGated ==
    \A t \in Tasks :
        /\ Absent(t) =>
              /\ Cardinality(ErrorsOf(t)) = 1
              /\ \E k \in ErrorsOf(t) : result.errors[k] = TaskError(t, "Task not found")
              /\ CallsOf("addMessage", t) = {} /\ CallsOf("setStage", t) = {}
              /\ \A k \in 1..Len(requests) :
                    requests[k].ref = t => requests[k].kind = "project.task.search_read"
              /\ \A m \in 1..Len(mailMessages) : mailMessages[m].res_id # t
              /\ taskStage[t] = NotWritten
        /\ \A k \in CallsOf("setStage", t) :
              \E j \in CallsOf("addMessage", t) : j < k /\ calls[j].outcome = "ok"
        /\ \A k \in RequestsOfKind("project.task.type.search_read", t)
                     \cup RequestsOfKind("project.task.write", t) :
              \E j \in RequestsOfKind("mail.message.create", t) :
                  j < k /\ requests[j].answer = "result"

C21_Witness ==
    /\ pc = "done"
    /\ Absent(1)
    /\ result.errors = <<TaskError(1, "Task not found")>>
    /\ result.processed = 1
    /\ taskStage[2] # NotWritten
    /\ Answered("addMessage", 2, "ok")

\* ------------------------------------------------------------------ one entry per task
\* The distinct task ids the event refers to: in the commit messages of a
\* push, in the title and body of a pull request.
DistinctReferenced ==
    IF event.kind = "push"
    THEN UNION {TaskIds(parseReferences(event.commits[i].message)) :
                    i \in 1..Len(event.commits)}
    ELSE IF event.kind = "pull_request" THEN TaskIds(parseReferences(textToSearch(event)))
    ELSE {}

(* C22: within one event each distinct task id is fetched at most once and *)
(* receives at most one message post and at most one stage set, however    *)
(* many commits or occurrences refer to it; processed never exceeds the    *)
(* number of distinct task ids referenced.                                 *)
C22_OncePerTask ==
    /\ \A t \in Tasks :
          /\ \A op \in {"getTask", "addMessage", "setStage"} :
                Cardinality(CallsOf(op, t)) <= 1
          /\ \A kind \in {"project.task.search_read", "mail.message.create",
                           "project.task.write"} :
                Cardinality(RequestsOfKind(kind, t)) <= 1
          /\ Cardinality({m \in 1..Len(mailMessages) : mailMessages[m].res_id = t}) <= 1
          /\ CallsOf("getTask", t) # {} => t \in DistinctReferenced
    /\ result.processed <= Cardinality(DistinctReferenced)

\* Two commits refer to task 1, the second closing it: one fetch, one
\* message, one stage set.
C22_Witness ==
    /\ pc = "done"
    /\ event.kind = "push"
    /\ Len(event.commits) = 2
    /\ \A i \in 1..2 : 1 \in TaskIds(parseReferences(event.commits[i].message))
    /\ DistinctReferenced = {1}
    /\ Cardinality(CallsOf("setStage", 1)) = 1
    /\ Cardinality(RequestsOfKind("mail.message.create", 1)) = 1
    /\ result.processed = 1

\* ------------------------------------------------------------------ request validation
\* The signature header is present, starts with "sha256=" and is the HMAC of
\* the payload sent under the secret of the worker.
SignatureMatches ==
    /\ ~request.signature.null
    /\ request.signature.prefix = "sha256="
    /\ request.signature.secret = "test-secret"
    /\ request.signature.intact

\* The status the checks of the request give it, 0 when it passes them all.
RejectionStatus ==
    IF request.method # "POST" THEN 405
    ELSE IF request.path # "/webhook" THEN 404
    ELSE IF request.eventType = "null" THEN 400
    ELSE IF ~SignatureMatches THEN 401
    ELSE 0

\* Nothing was processed: no event was read and no call or request was made.
NothingProcessed ==
    /\ event = NoEvent
    /\ calls = <<>>
    /\ requests = <<>>
    /\ mailMessages = <<>>
    /\ \A t \in Tasks : taskStage[t] = NotWritten

(* C23: the worker checks the method (405), the path (404), the event-type *)
(* header (400) and the signature (401) in this order, and a request that  *)
(* fails one of them is answered with that status and never processed: no  *)
(* call to the tracker or to GitHub is made for it.                        *)
C23_ValidationOrder ==
    RejectionStatus # 0 =>
        /\ pc \in {"idle", "responded"}
        /\ NothingProcessed
        /\ pc = "responded" =>
              /\ response.status = RejectionStatus
              /\ response.body = NoJson

\* A pull request event that refers to a task, signed under another secret.
C23_Witness ==
    /\ pc = "responded"
    /\ response.status = 401
    /\ request.payload.json
    /\ request.payload.event.kind = "pull_request"
    /\ parseReferences(textToSearch(request.payload.event)) # <<>>
    /\ request.signature.secret # "test-secret"
    /\ NothingProcessed

\* A request that fails every check is answered 405.
C23_WitnessOrder ==
    /\ pc = "responded"
    /\ request.method # "POST" /\ request.path # "/webhook"
    /\ request.eventType = "null" /\ request.signature.null
    /\ response.status = 405

\* ------------------------------------------------------------------ unhandled event types
\* A request that passes the checks and names an event type other than push
\* and pull_request.
SignedUnhandled ==
    /\ RejectionStatus = 0
    /\ request.method = "POST"
    /\ request.eventType \notin {"push", "pull_request"}

\* No call to the tracker or to GitHub was made.
NoRemoteCall ==
    /\ calls = <<>>
    /\ requests = <<>>
    /\ mailMessages = <<>>
    /\ \A t \in Tasks : taskStage[t] = NotWritten

\* The response is the acknowledgement of an event type that is not handled.
Acknowledged ==
    /\ response.status = 200
    /\ response.body.status = "ok"
    /\ response.body.event = request.eventType
    /\ "processed" \notin response.body.keys

(* C24 as stated: every validly signed request whose event type is neither *)
(* push nor pull_request is answered with the 200 acknowledgement that     *)
(* names the event type, and no remote call is made.                       *)
C24_UnhandledAcknowledged ==
    (SignedUnhandled /\ pc = "responded") => (Acknowledged /\ NoRemoteCall)

(* C24 amended: a validly signed request whose event type is neither push  *)
(* nor pull_request and whose payload is valid JSON is answered with the   *)
(* 200 acknowledgement that names the event type; no remote call is made   *)
(* for a request of such a type, whatever its payload.                     *)
C24_UnhandledJsonAcknowledged ==
    SignedUnhandled =>
        /\ NoRemoteCall
        /\ pc \in {"idle", "responded"}
        /\ (pc = "responded" /\ request.payload.json) =>
              /\ Acknowledged
              /\ IF request.eventType = "ping"
                 THEN response.body.keys = {"status", "event"}
                 ELSE /\ response.body.keys = {"status", "event", "message"}
                      /\ response.body.message = "Event type not handled"

C24_Witness ==
    /\ pc = "responded"
    /\ SignedUnhandled
    /\ request.eventType = "issues"
    /\ request.payload.json
    /\ Acknowledged

C24_WitnessPing ==
    /\ pc = "responded"
    /\ SignedUnhandled
    /\ request.eventType = "ping"
    /\ request.payload.json
    /\ response.body.keys = {"status", "event"}

\* ------------------------------------------------------------------ malformed events
\* A validly signed push or pull_request request whose payload is no JSON or
\* lacks the structure of the event.
MalformedEvent ==
    /\ RejectionStatus = 0
    /\ request.method = "POST"
    /\ request.eventType \in {"push", "pull_request"}
    /\ ~request.payload.json \/ request.payload.missing # {}

(* C25: a validly signed push or pull_request request whose payload is not *)
(* valid JSON or lacks the expected event structure is answered 500 with   *)
(* status 'error' and no {processed, errors} result, and no remote call is *)
(* made for it: a malformed event has no partial effect.                   *)
C25_MalformedFails ==
    MalformedEvent =>
        /\ NoRemoteCall
        /\ pc = "responded" =>
              /\ response.status = 500
              /\ response.body.status = "error"
              /\ response.body.keys = {"status", "message"}

\* ------------------------------------------------------------------ scope of the errors
\* The error is that of a task the event refers to: 'ODP-<id>: <reason>'.
IsTaskScoped(e) == e.scope = "ODP-" /\ e.taskId \in DistinctReferenced

(* C26 as stated: every entry of the errors of a result of handlePushEvent *)
(* or handlePullRequestEvent is scoped to a task.                          *)
C26_AllTaskScoped ==
    \A k \in 1..Len(result.errors) : IsTaskScoped(result.errors[k])

(* C26 amended: every entry of the errors of handlePushEvent is scoped to  *)
(* a task; every entry of the errors of handlePullRequestEvent is scoped   *)
(* to a task except the last one when the summary comment failed, which is *)
(* 'GitHub comment failed: <reason>'.                                      *)
C26_TaskScopedOrComment ==
    LET n == Len(result.errors) IN
    /\ event.kind = "push" => \A k \in 1..n : IsTaskScoped(result.errors[k])
    /\ event.kind = "pull_request" =>
          /\ \A k \in 1..(n - 1) : IsTaskScoped(result.errors[k])
          /\ n > 0 =>
                IF CommentFailed
                THEN result.errors[n].scope = "GitHub comment failed" /\ pc # "pr_get"
                ELSE IsTaskScoped(result.errors[n])

C26_Witness ==
    /\ pc = "done"
    /\ event.kind = "pull_request"
    /\ Len(result.errors) = 2
    /\ IsTaskScoped(result.errors[1])
    /\ result.errors[2] = CommentError("GitHub API error: 403")

C26_WitnessPush ==
    /\ pc = "done"
    /\ event.kind = "push"
    /\ Len(result.errors) = 2
    /\ result.errors[1].taskId # result.errors[2].taskId

\* ------------------------------------------------------------------ calls of the parser
(* C27: in any sequence of calls of parseReferences, a call on a text      *)
(* returns what every earlier call on the same text returned, which is a   *)
(* function of the text alone: the shared pattern keeps its lastIndex 0    *)
(* between the calls, and a text without a match gives the empty sequence. *)
C27_ParserIsStateless ==
    /\ patternLastIndex = 0
    /\ \A i, j \in 1..Len(parsed) :
          parsed[i].text = parsed[j].text => parsed[i].references = parsed[j].references
    /\ \A i \in 1..Len(parsed) :
          /\ parsed[i].references = Collect(MatchAll(parsed[i].text, 1), <<>>, {})
          /\ (\A k \in 1..Len(parsed[i].text) : parsed[i].text[k].kind # "id")
                => parsed[i].references = <<>>

\* Two calls on the same text with two references, and a call on a text
\* without a match.
C27_Witness ==
    /\ parsePc = "done"
    /\ Len(parsed) = 2
    /\ parsed[1].text = parsed[2].text
    /\ Len(parsed[2].references) = 2

C27_WitnessNoMatch ==
    /\ parsePc = "done"
    /\ Len(parsed) = 2
    /\ Len(parsed[1].references) = 1
    /\ parsed[2].text = <<Word("Closes"), Ws(" ")>>
    /\ parsed[2].references = <<>>

(* C28: every reference parseReferences returns has a taskId that is a     *)
(* positive integer, at least 1.                                           *)
C28_PositiveTaskId ==
    parsePc = "done" => \A i \in 1..Len(references) : references[i].taskId >= 1

\* The white space that stands right before lexeme p holds a line break.
LineBreakBefore(txt, p) ==
    \E q \in 1..(p - 1) :
        /\ txt[q].s = "\n"
        /\ \A o \in q..(p - 1) : txt[o].kind = "ws"

(* C29: a keyword determines the action of a reference only when it stands *)
(* on the same line as the identifier: an identifier that starts a line is *)
(* a REF, whatever keyword ends the line before.                           *)
C29_KeywordOnSameLine ==
    parsePc = "done" =>
        \A i \in 1..Len(references) :
            LineBreakBefore(text, FirstIdentifier(text, references[i].taskId))
                => references[i].action = "ref"

\* ------------------------------------------------------------------ author cache
\* Call i of resolveAuthorPartnerId returned a partner id for an email.
ReturnedPartner(i) ==
    /\ authorCalls[i].email # NoEmail
    /\ ~authorCalls[i].throws
    /\ authorCalls[i].value # 0

(* C30: on one client instance, once resolveAuthorPartnerId has returned a *)
(* partner id for an email, every later call with that email returns the   *)
(* same id without a remote request; the cache is keyed by the email as    *)
(* given, the remote lookup is made with the mapped email.                 *)
C30_CachedForLife ==
    /\ \A i, j \in 1..Len(authorCalls) :
          (i < j /\ ReturnedPartner(i) /\ authorCalls[j].email = authorCalls[i].email)
              => /\ authorCalls[j].value = authorCalls[i].value
                 /\ ~authorCalls[j].throws
                 /\ authorCalls[j].reqs = <<>>
    /\ \A i \in 1..Len(authorCalls) :
          /\ ReturnedPartner(i) =>
                [email |-> authorCalls[i].email, partnerId |-> authorCalls[i].value]
                    \in partnerIdCache
          /\ \A k \in 1..Len(authorCalls[i].reqs) :
                authorCalls[i].reqs[k].kind = "res.users.search_read" =>
                    authorCalls[i].reqs[k].arg = (IF authorCalls[i].email = 2 THEN 3
                                                  ELSE authorCalls[i].email)
    /\ \A c \in partnerIdCache :
          \E i \in 1..Len(authorCalls) :
              ReturnedPartner(i) /\ authorCalls[i].email = c.email
              /\ authorCalls[i].value = c.partnerId

\* The mapped email 2 is looked up as 3, resolved, and then served from the
\* cache twice.
C30_Witness ==
    /\ Len(authorCalls) = 3
    /\ \A i \in 1..3 : authorCalls[i].email = 2 /\ authorCalls[i].value = PartnerOfEmail(3)
    /\ Len(authorCalls[1].reqs) = 1 /\ authorCalls[1].reqs[1].arg = 3
    /\ requests = authorCalls[1].reqs
    /\ partnerIdCache = {[email |-> 2, partnerId |-> PartnerOfEmail(3)]}

\* ------------------------------------------------------------------ default identity
\* What a call returns when it falls back to the default user after the
\* requests before: the partner of the default user read from the server, or
\* null (0) with no further request when no default user is configured.
FallsBack(c, before) ==
    IF config.defaultUserId = 0
    THEN c.reqs = before /\ c.value = 0 /\ ~c.throws
    ELSE /\ Len(c.reqs) = Len(before) + 1
         /\ SubSeq(c.reqs, 1, Len(before)) = before
         /\ Last(c.reqs).kind = "res.users.read"
         /\ Last(c.reqs).arg = config.defaultUserId
         /\ c.throws = (Last(c.reqs).answer = "throw")
         /\ c.value = IF Last(c.reqs).answer = "result"
                      THEN PartnerOfUser(config.defaultUserId) ELSE 0

C31_WitnessNoDefault ==
    /\ config.defaultUserId = 0
    /\ \E i, j \in 1..Len(authorCalls) :
          /\ authorCalls[i].email = NoEmail
          /\ authorCalls[i].reqs = <<>> /\ authorCalls[i].value = 0
          /\ authorCalls[j].email = 1
          /\ Len(authorCalls[j].reqs) = 1
          /\ authorCalls[j].value = 0 /\ ~authorCalls[j].throws

\* ------------------------------------------------------------------ backoff
\* The delays of retries 1 to 5, in milliseconds.
Backoff == <<500, 1000, 2000, 4000, 8000>>

(* C32: rpc sleeps nothing before the first attempt, 500 ms before the     *)
(* first retry and twice the previous delay before each later retry: 500,  *)
(* 1000, 2000, 4000, 8000 for retries 1 to 5.                              *)
C32_BackoffDoubles ==
    /\ Len(delays) = (IF fetchLog = <<>> THEN 0 ELSE Len(fetchLog) - 1)
    /\ Len(delays) <= Len(Backoff)
    /\ \A i \in 1..Len(delays) : delays[i] = Backoff[i]
    /\ \A i \in 2..Len(delays) : delays[i] = 2 * delays[i - 1]

\* A call that made all five retries.
C32_Witness ==
    /\ Len(fetchLog) = 6
    /\ delays = Backoff
    /\ rpcPc = "thrown"

\* ------------------------------------------------------------------ processing order
\* The task ids of the references of the commits, commit after commit.
RECURSIVE ReferencedIds(_)
ReferencedIds(commits) ==
    IF commits = <<>> THEN <<>>
    ELSE LET rs == parseReferences(Head(commits).message) IN
         [i \in 1..Len(rs) |-> rs[i].taskId] \o ReferencedIds(Tail(commits))

\* A sequence of ids without the repetitions of an id after its first occurrence.
RECURSIVE FirstOccurrences(_)
FirstOccurrences(ids) ==
    IF ids = <<>> THEN <<>>
    ELSE LET front == FirstOccurrences(SubSeq(ids, 1, Len(ids) - 1))
             last == ids[Len(ids)]
         IN IF \E k \in 1..Len(front) : front[k] = last THEN front
            ELSE Append(front, last)

PushOrder == FirstOccurrences(ReferencedIds(event.commits))

GetTaskCalls == SelectSeq(calls, LAMBDA c : c.op = "getTask")

\* The place of a task id in the order of first occurrence.
PlaceOf(taskId) == CHOOSE k \in 1..Len(PushOrder) : PushOrder[k] = taskId

(* C33: handlePushEvent processes tasks in the order of the first          *)
(* occurrence of each task id across the commits: the entries of the map,  *)
(* the fetches of the tasks and the errors recorded follow that order, and *)
(* the order is the same when a later commit replaced the entry of a task. *)
C33_FirstOccurrenceOrder ==
    (event.kind = "push" /\ pc \in {"push_get", "push_msg", "push_stage", "done"}) =>
        /\ [k \in 1..Len(allReferences) |-> allReferences[k].taskId] = PushOrder
        /\ Len(GetTaskCalls) <= Len(PushOrder)
        /\ \A k \in 1..Len(GetTaskCalls) : GetTaskCalls[k].taskId = PushOrder[k]
        /\ \A i, j \in 1..Len(result.errors) :
              i < j => PlaceOf(result.errors[i].taskId) < PlaceOf(result.errors[j].taskId)
        /\ pc = "done" => Len(GetTaskCalls) = Len(PushOrder)

\* Task 1 is referenced before task 2 and a later commit closes task 1,
\* replacing its entry: task 1 is still processed first, and both fail.
C33_Witness ==
    /\ event.kind = "push"
    /\ pc = "done"
    /\ Len(event.commits) = 2
    /\ parseReferences(event.commits[1].message)
          = <<[action |-> "ref", taskId |-> 1], [action |-> "ref", taskId |-> 2]>>
    /\ parseReferences(event.commits[2].message) = <<[action |-> "close", taskId |-> 1]>>
    /\ allReferences[1].value.shortSha = 2
    /\ PushOrder = <<1, 2>>
    /\ Len(result.errors) = 2
    /\ result.errors[1].taskId = 1

\* Task 2 is referenced first.
C33_WitnessSecondFirst ==
    /\ event.kind = "push"
    /\ pc = "done"
    /\ PushOrder = <<2, 1>>
    /\ Len(result.errors) = 2
    /\ result.errors[1].taskId = 2

\* ------------------------------------------------------------------ pull-request author
(* C34: handlePullRequestEvent posts each task message attributed to the   *)
(* author of the pull request: addMessage is called with the task id, a    *)
(* message naming the number of the pull request, and the login of the     *)
(* pull request's user as the author argument.                             *)
C34_AttributedToPRAuthor ==
    \A k \in 1..Len(calls) :
        (event.kind = "pull_request" /\ calls[k].op = "addMessage") =>
            /\ calls[k].taskId \in TaskIds(refs)
            /\ calls[k].message.number = event.number
            /\ calls[k].author = UserLogin

\* ------------------------------------------------------------------ sequential processing
\* The task ids of the references the handler processes, in the order of
\* its loop.
Processing ==
    IF event.kind = "push"
    THEN [k \in 1..Len(allReferences) |-> allReferences[k].taskId]
    ELSE [k \in 1..Len(refs) |-> refs[k].taskId]

\* The turn of a task in the loop, 0 when the loop never reaches it.
TurnOf(taskId) ==
    IF \E k \in 1..Len(Processing) : Processing[k] = taskId
    THEN CHOOSE k \in 1..Len(Processing) : Processing[k] = taskId
    ELSE 0

ClientCalls == SelectSeq(calls, LAMBDA c : c.op # "postPRComment")

\* The requests made of the tracker: every request but that of the comment.
TrackerRequests == SelectSeq(requests, LAMBDA q : q.kind # "github.issues.comments")

(* C35: an event is processed without parallelism: the remote requests are *)
(* issued one after the other, and every request made for one reference is *)
(* issued before the first request of the next reference; the same holds   *)
(* of the calls of the client's methods, and each new request belongs to   *)
(* the reference at the position of the loop.  The request of the summary *)
(* comment comes after all of them.                                        *)
C35_OneReferenceAtATime ==
    LET turns == [i \in 1..Len(TrackerRequests) |-> TurnOf(TrackerRequests[i].ref)]
        callTurns == [i \in 1..Len(ClientCalls) |-> TurnOf(ClientCalls[i].taskId)]
    IN
    /\ \A i \in 1..Len(turns) :
          turns[i] >= 1 /\ (i < Len(turns) => turns[i] <= turns[i + 1])
    /\ \A i \in 1..Len(callTurns) :
          callTurns[i] >= 1 /\ (i < Len(callTurns) => callTurns[i] <= callTurns[i + 1])
    /\ \A i \in 1..Len(requests) :
          requests[i].kind = "github.issues.comments"
              => i = Len(requests) /\ pc \in {"done", "responded"}
    /\ (pc \in {"push_msg", "push_stage", "pr_msg", "pr_stage"} /\ requests # <<>>)
          => TurnOf(Last(requests).ref) = idx

\* Two references, each with several requests: those of the first all come
\* before those of the second.
C35_Witness ==
    /\ pc = "done"
    /\ Len(Processing) = 2
    /\ Len(RequestsFor(Processing[1])) >= 3
    /\ Len(RequestsFor(Processing[2])) >= 3
    /\ TrackerRequests = RequestsFor(Processing[1]) \o RequestsFor(Processing[2])
    /\ Last(requests).kind = "github.issues.comments"

\* ------------------------------------------------------------------ interleaved calls
\* The calls that are settled and, of them, those that returned.
SettledCalls == {i \in 1..Len(authorCalls) : authorCalls[i].at = "done"}
Returned == {i \in SettledCalls : ~authorCalls[i].throws}

\* Two calls were given the same answer by the tracker wherever both were
\* given one: to the search of the user and to the read of the default user.
Alike(i, j) ==
    LET ci == authorCalls[i]
        cj == authorCalls[j]
        data == {"result", "empty"}
    IN /\ (ci.a1 \in data /\ cj.a1 \in data) => ci.a1 = cj.a1
       /\ (ci.a2 \in data /\ cj.a2 \in data) => ci.a2 = cj.a2

\* Every call with the email is settled.
AllSettled(email) ==
    \A i \in 1..Len(authorCalls) : authorCalls[i].email = email => i \in SettledCalls

\* The calls with the email returned the same id, and the entry cached for
\* the email is the id returned, if one was.
SameOutcome(email) ==
    /\ \A i, j \in Returned :
          (authorCalls[i].email = email /\ authorCalls[j].email = email)
              => authorCalls[i].value = authorCalls[j].value
    /\ \A i \in Returned :
          (authorCalls[i].email = email /\ authorCalls[i].value # 0)
              => /\ CacheHas(partnerIdCache, email)
                 /\ CacheGet(partnerIdCache, email) = authorCalls[i].value

(* C36 as stated: when calls of resolveAuthorPartnerId for the same email  *)
(* interleave on one instance, the entry finally cached for the email and  *)
(* the id each call returns are the same whichever call finishes last.     *)
C36_SameWhicheverFinishesLast ==
    \A email \in Emails : AllSettled(email) => SameOutcome(email)

(* C36, amended: the same holds when the tracker gave the calls the same   *)
(* answers to their lookups.                                               *)
C36_SameWhenAnsweredAlike ==
    \A email \in Emails :
        (/\ AllSettled(email)
         /\ \A i, j \in SettledCalls :
               (authorCalls[i].email = email /\ authorCalls[j].email = email)
                   => Alike(i, j))
            => SameOutcome(email)

\* Two calls for email 1 both missed the cache, both found the user and both
\* wrote the entry.
C36_Witness ==
    /\ Len(authorCalls) = 2
    /\ \A i \in 1..2 :
          /\ authorCalls[i].email = 1
          /\ authorCalls[i].missed
          /\ authorCalls[i].at = "done"
          /\ authorCalls[i].a1 = "result"
          /\ authorCalls[i].value = PartnerOfEmail(1)
    /\ CacheGet(partnerIdCache, 1) = PartnerOfEmail(1)

\* ------------------------------------------------------------------ authentication
(* C38: the first remote request a client makes is an authentication call  *)
(* (the service "common" of the tracker), made before the first request    *)
(* for data.                                                               *)
C38_AuthenticatesFirst ==
    requests # <<>> => Service(requests[1].kind) = "common"

\* ------------------------------------------------------------------ requests of a merge
\* The kinds of the requests made for a task, in order.
KindsFor(taskId) ==
    [i \in 1..Len(RequestsFor(taskId)) |-> RequestsFor(taskId)[i].kind]

\* A merged pull request whose first reference closes an existing task, with
\* no default user, a numeric done stage and no request that fails.
MergedClose ==
    /\ event.kind = "pull_request"
    /\ pc = "done"
    /\ isMerged(event)
    /\ refs # <<>>
    /\ refs[1].action = "close"
    /\ config.defaultUserId = 0
    /\ stages.done.kind = "number"
    /\ Answered("getTask", refs[1].taskId, "task")
    /\ \A i \in 1..Len(requests) : requests[i].answer # "throw"

(* C37: for a merged pull request with a closing keyword on an existing    *)
(* task, with no author email, no default user and a numeric done stage,   *)
(* exactly four requests are made of the tracker for the task, in this     *)
(* order: the fetch of the task, the lookup of the Note subtype, the       *)
(* creation of the message, the write of the stage.                        *)
C37_FourRequests ==
    MergedClose =>
        KindsFor(refs[1].taskId)
            = <<"project.task.search_read", "mail.message.subtype.search_read",
                "mail.message.create", "project.task.write">>

\* ------------------------------------------------------------------ accounting
\* The references of the pull request, as the handler parses them.
ParsedReferences == parseReferences(textToSearch(event))

\* Every task has at most one error, and the tasks counted are those
\* without one.
OneOrTheOther(tasks) ==
    /\ \A t \in tasks : Cardinality(ErrorsOf(t)) <= 1
    /\ result.processed = Cardinality({t \in tasks : ErrorsOf(t) = {}})

(* C39: the accounting of a result is exact.  At the end of                *)
(* handlePushEvent processed plus the number of errors is the number of    *)
(* distinct task ids referenced; at the end of handlePullRequestEvent for  *)
(* a handled action processed plus the number of task-scoped errors is the *)
(* number of parsed references; each reference is counted or has one       *)
(* error, never both and never neither.                                    *)
C39_ExactAccounting ==
    /\ (event.kind = "push" /\ pc = "done") =>
          /\ result.processed + Len(result.errors) = Cardinality(DistinctReferenced)
          /\ OneOrTheOther(DistinctReferenced)
    /\ (event.kind = "pull_request" /\ HandledAction(event.action) /\ pc = "done") =>
          /\ result.processed + Len(TaskScoped(result.errors)) = Len(ParsedReferences)
          /\ OneOrTheOther(TaskIds(ParsedReferences))

\* A push with two tasks, one counted and one with an error.
C39_Witness ==
    /\ event.kind = "push"
    /\ pc = "done"
    /\ Cardinality(DistinctReferenced) = 2
    /\ result.processed = 1
    /\ Len(result.errors) = 1

\* A pull request with two references, one counted and one with an error,
\* whose summary comment failed as well.
C39_WitnessPullRequest ==
    /\ event.kind = "pull_request"
    /\ pc = "done"
    /\ Len(ParsedReferences) = 2
    /\ result.processed = 1
    /\ Len(TaskScoped(result.errors)) = 1
    /\ Len(result.errors) = 2

\* ------------------------------------------------------------------ recorded commit
\* The commits of the push that close the task.
ClosingCommits(taskId) ==
    {i \in 1..Len(event.commits) : CommitRefers(i, [action |-> "close", taskId |-> taskId])}

\* The commit whose metadata are to be recorded for the task: the last that
\* closes it, or the first that refers to it when none closes it.
RecordedCommit(taskId) ==
    IF ClosingCommits(taskId) # {}
    THEN CHOOSE i \in ClosingCommits(taskId) : \A j \in ClosingCommits(taskId) : j <= i
    ELSE CHOOSE i \in ReferringCommits(taskId) : \A j \in ReferringCommits(taskId) : i <= j

(* C40: in handlePushEvent the commit metadata recorded for a task (short  *)
(* hash, URL, title, author email) are those of the last commit of the     *)
(* push that references it with a closing keyword or, when no commit       *)
(* closes it, those of the first commit that references it; a later commit *)
(* with only a plain reference never replaces them.  The message posted    *)
(* names that commit.                                                      *)
C40_RecordedCommit ==
    (event.kind = "push" /\ pc \in {"push_get", "push_msg", "push_stage", "done"}) =>
        \A k \in 1..Len(allReferences) :
            LET t == allReferences[k].taskId
                c == event.commits[RecordedCommit(t)]
                v == allReferences[k].value
            IN /\ v.shortSha = c.id.first7
               /\ v.commitUrl = c.url
               /\ v.commitTitle = FirstLine(c.message)
               /\ v.authorEmail = c.email
               /\ \A m \in CallsOf("addMessage", t) :
                     calls[m].message.sha = c.id.first7 /\ calls[m].author = c.email

\* The first commit closes task 1 and the second only mentions it: the
\* metadata stay those of the first commit, and the message names it.
C40_Witness ==
    /\ event.kind = "push"
    /\ pc = "done"
    /\ Len(event.commits) = 2
    /\ parseReferences(event.commits[1].message) = <<[action |-> "close", taskId |-> 1]>>
    /\ parseReferences(event.commits[2].message) = <<[action |-> "ref", taskId |-> 1]>>
    /\ allReferences[1].value.shortSha = 1
    /\ \E m \in CallsOf("addMessage", 1) : calls[m].message.sha = 1

\* Both commits close task 1: the metadata are those of the second.
C40_WitnessLastClose ==
    /\ event.kind = "push"
    /\ pc = "done"
    /\ Len(event.commits) = 2
    /\ ClosingCommits(1) = {1, 2}
    /\ allReferences[1].value.shortSha = 2

\* Neither commit closes task 1: the metadata are those of the first.
C40_WitnessFirstPlain ==
    /\ event.kind = "push"
    /\ pc = "done"
    /\ ReferringCommits(1) = {1, 2}
    /\ ClosingCommits(1) = {}
    /\ allReferences[1].value.shortSha = 1

====
